---- MODULE Spec2Model ----
(***************************************************************************)
(* Model of the Markdown -> OpenAPI converter (src/md2openapi.py), of the  *)
(* crawler's table writer and command line (src/zentao_crawler, src/cli.py)*)
(* and of the document verifier (src/verify_api_docs.py).                  *)
(*                                                                         *)
(* A document is a sequence of lines, every line newline-terminated.  The  *)
(* regular expressions of the source are translated to operators over     *)
(* that sequence.  TLA+ strings are ASCII, so the CJK literals of the      *)
(* source are written as the ASCII stand-ins defined below.                *)
(***************************************************************************)
EXTENDS Integers, Sequences, FiniteSets, TLC

VARIABLES content, pc, method, path, description, req_params, request_body,
          response_schema, result, used,
          call, ret,
          api_list, info_md, openapi, calls,
          files,
          cli_pc, driver, quits, closes, crawls, outdir, events

\* used is a history variable: the request-body strategies (of "a", "b", "c",
\* "d") that consumed their section, in the order they ran
vars == <<content, pc, method, path, description, req_params, request_body,
          response_schema, result, used, call, ret, api_list, info_md, openapi, calls,
          files, cli_pc, driver, quits, closes, crawls, outdir, events>>

\* the state of parse_markdown_file
file_vars == <<content, pc, method, path, description, req_params, request_body,
               response_schema, result, used>>

\* one call of a function without side effects: its arguments and what it returned
call_vars == <<call, ret>>

\* the state of build_openapi_spec: the operations handed to it (it writes into
\* them), the sidecar file, the document of the last call, the number of calls
build_vars == <<api_list, info_md, openapi, calls>>

\* the loop of md2openapi.main over the Markdown files: the documents and the
\* index of the one being parsed
main_vars == <<files>>

\* cli.main and its crawler: where main is, crawler.driver, and the numbers of
\* driver.quit(), crawler.close() and crawler.run_crawl() calls made
cli_vars == <<cli_pc, driver, quits, closes, crawls, outdir, events>>

(***************************************************************************)
(* Literals of the source.                                                 *)
(***************************************************************************)
ReqHead       == "reqHead"        \* 请求头
ReqHeadParams == "reqHeadParams"  \* 请求头参数
ReqBody       == "reqBody"        \* 请求体
ReqParams     == "reqParams"      \* 请求参数
ReqFields     == "reqFields"      \* 请求字段
ReqExample    == "reqExample"     \* 请求示例
RespExample   == "respExample"    \* 响应示例
RespParams    == "respParams"     \* 响应参数
ReqResp       == "reqResp"        \* 请求响应
RespFields    == "respFields"     \* 响应字段
RetParams     == "retParams"      \* 返回参数
ColName       == "colName"        \* 名称
ColType       == "colType"        \* 类型
ColRequired   == "colRequired"    \* 必填
ColDesc       == "colDesc"        \* 描述
Shi           == "shi"            \* 是
Fou           == "fou"            \* 否
ObjMark       == "duixiang"       \* 对象
ArrMark       == "shuzuyuansu"    \* 数组元素 (contains 数组)

\* Python's None; every dict of the source is a record, so None is one too.
None == [isNone |-> TRUE]
IsNone(v) == "isNone" \in DOMAIN v

(***************************************************************************)
(* Lines of a document.                                                    *)
(*   head : n hashes, a blank, the word w, and (cells # <<>>) a blank and  *)
(*          the rest of the line, as tokens                                *)
(*   row  : | c1 | c2 | ... |                                              *)
(*   bold : **w1 w2 ...**                                                  *)
(*   text : a line of plain text w                                         *)
(*   fence: the fence of a code block ;  json: the text inside a fenced block, kept   *)
(*          as what json.loads makes of it (v)                             *)
(***************************************************************************)
NoJson == [valid |-> FALSE, kind |-> "none", obj |-> <<>>]
Line(k, n, w, cells, v) == [k |-> k, n |-> n, w |-> w, cells |-> cells, v |-> v]
Heading(n, w, rest) == Line("head", n, w, rest, NoJson)
Row(cells)       == Line("row", 0, "", cells, NoJson)
Bold(words)      == Line("bold", 0, "", words, NoJson)
Text(w)          == Line("text", 0, w, <<>>, NoJson)
Blank            == Line("blank", 0, "", <<>>, NoJson)
Fence            == Line("fence", 0, "", <<>>, NoJson)
Json(v)          == Line("json", 0, "", <<>>, v)

\* str.lower() on the strings the model uses
Lower(s) ==
    CASE s = "GET" -> "get"
      [] s = "POST" -> "post"
      [] s = "PUT" -> "put"
      [] s = "PATCH" -> "patch"
      [] s = "DELETE" -> "delete"
      [] s \in {"Token", "TOKEN"} -> "token"
      [] s = "Cookie" -> "cookie"
      [] s = "Desc" -> "desc"
      [] s = "INT" -> "int"
      [] s = "String" -> "string"
      [] OTHER -> s

RECURSIVE Join(_)
\* ''.join(tokens)
Join(toks) == IF toks = <<>> THEN "" ELSE Head(toks) \o Join(Tail(toks))

\* index of the first non-blank line after line i, 0 if none
NextNonBlank(doc, i) ==
    LET S == {j \in (i + 1)..Len(doc) : doc[j].k # "blank"}
    IN IF S = {} THEN 0 ELSE CHOOSE j \in S : \A m \in S : j <= m

RECURSIVE Interleave(_)
Interleave(cells) ==
    IF cells = <<>> THEN <<"|">> ELSE <<"|", Head(cells)>> \o Interleave(Tail(cells))

RECURSIVE Hashes(_)
Hashes(n) == IF n = 0 THEN "" ELSE "#" \o Hashes(n - 1)

\* the text of a line, as tokens
LineTokens(l) ==
    CASE l.k = "head" -> <<Hashes(l.n), l.w>> \o l.cells
      [] l.k = "row" -> Interleave(l.cells)
      [] l.k = "bold" -> <<"**">> \o l.cells \o <<"**">>
      [] l.k = "text" -> <<l.w>>
      [] l.k = "fence" -> <<"<fence>">>
      [] l.k = "json" -> <<"{json}">>
      [] OTHER -> <<>>

(***************************************************************************)
(* re.search(r'###\s+(\w+)\s+([^\n]+)', content): the pattern is not       *)
(* anchored to a line start, so it matches inside any heading of three or  *)
(* more hashes; \s+ runs over line ends, so a heading that ends after its  *)
(* word takes the next non-blank line as group 2.                          *)
(***************************************************************************)
TitleEnd(doc, i) ==
    IF doc[i].k # "head" \/ doc[i].n < 3 THEN 0
    ELSE IF doc[i].cells # <<>> THEN i
    ELSE NextNonBlank(doc, i)

TitleMatches(doc) == {i \in 1..Len(doc) : TitleEnd(doc, i) # 0}

FirstOf(S) == CHOOSE i \in S : \A j \in S : i <= j

TitleGroup2(doc, i) ==
    IF doc[i].cells # <<>> THEN doc[i].cells ELSE LineTokens(doc[TitleEnd(doc, i)])

RECURSIVE SubColon(_)
\* re.sub(r':([^/]+)', r'{\1}', path)
SubColon(p) ==
    IF p = <<>> THEN <<>>
    ELSE IF Head(p) = ":" /\ Len(p) >= 2 /\ p[2] # "/"
         THEN LET S == {j \in 2..Len(p) : p[j] = "/"}
                  e == IF S = {} THEN Len(p) ELSE FirstOf(S) - 1
              IN <<"{">> \o SubSeq(p, 2, e) \o <<"}">> \o SubColon(SubSeq(p, e + 1, Len(p)))
         ELSE <<Head(p)>> \o SubColon(Tail(p))

RECURSIVE RStripColon(_)
\* path.rstrip(':')
RStripColon(p) ==
    IF p # <<>> /\ p[Len(p)] = ":" THEN RStripColon(SubSeq(p, 1, Len(p) - 1)) ELSE p

NormalizePath(p) == RStripColon(SubColon(p))

RECURSIVE FindBraces(_)
\* re.findall(r'{([^{}]+)}', path)
FindBraces(p) ==
    IF p = <<>> THEN <<>>
    ELSE IF Head(p) = "{"
         THEN LET S == {j \in 2..Len(p) : p[j] \in {"{", "}"}}
                  e == IF S = {} THEN 0 ELSE FirstOf(S)
              IN IF e > 2 /\ p[e] = "}"
                 THEN <<Join(SubSeq(p, 2, e - 1))>> \o FindBraces(SubSeq(p, e + 1, Len(p)))
                 ELSE FindBraces(Tail(p))
         ELSE FindBraces(Tail(p))

\* desc_match: the title pattern followed by \n+([^\n#]+)
DescLine(doc, i) ==
    LET e == TitleEnd(doc, i)
        d == IF e = 0 THEN 0 ELSE NextNonBlank(doc, e)
    IN IF d # 0 /\ doc[d].k # "head" THEN d ELSE 0

DescMatches(doc) == {i \in 1..Len(doc) : DescLine(doc, i) # 0}

(***************************************************************************)
(* re.search('####\s*TITLE\s*\n([\s\S]+?)\n\n', content).  Group 1 starts  *)
(* at the first non-blank line after the heading and runs to the first     *)
(* line that a blank line follows.  When no blank line follows, the        *)
(* pattern still matches, with a group holding one line end only, if three *)
(* or more blank lines follow the heading.                                 *)
(***************************************************************************)
IsSectionHead(l, title) == l.k = "head" /\ l.n >= 4 /\ l.w = title /\ l.cells = <<>>

BlankRun(doc, i) ==
    LET S == {j \in (i + 1)..(Len(doc) + 1) : j > Len(doc) \/ doc[j].k # "blank"}
    IN FirstOf(S) - i - 1

\* the lines of group 1 for the heading at line i; <<Blank>> for the empty group
SectionGroupAt(doc, i) ==
    LET j == NextNonBlank(doc, i)
        K == IF j = 0 THEN {}
             ELSE {k \in j..(Len(doc) - 1) : doc[k + 1].k = "blank"}
    IN IF K # {} THEN SubSeq(doc, j, FirstOf(K))
       ELSE IF BlankRun(doc, i) >= 3 THEN <<Blank>>
       ELSE <<>>

SectionHeads(doc, title) ==
    {i \in 1..Len(doc) : IsSectionHead(doc[i], title) /\ SectionGroupAt(doc, i) # <<>>}

SectionFound(doc, title) == SectionHeads(doc, title) # {}

SectionGroup(doc, title) == SectionGroupAt(doc, FirstOf(SectionHeads(doc, title)))

\* [line.strip() for line in table.splitlines() if '|' in line], as cell lists
PipeLines(group) == SelectSeq(group, LAMBDA l : l.k = "row")

RECURSIVE GetCol(_, _, _, _)
\* dict(zip(headers, cols)).get(key, default): the last header equal to key wins
GetCol(headers, cols, key, default) ==
    IF headers = <<>> THEN default
    ELSE LET n == Len(headers)
         IN IF headers[n] = key THEN cols[n]
            ELSE GetCol(SubSeq(headers, 1, n - 1), SubSeq(cols, 1, n - 1), key, default)

(***************************************************************************)
(* determine_schema_type                                                   *)
(***************************************************************************)
type_mapping ==
    [string |-> "string", str |-> "string", int |-> "integer", integer |-> "integer",
     float |-> "number", double |-> "number", number |-> "number", bool |-> "boolean",
     boolean |-> "boolean", array |-> "array", object |-> "object", date |-> "string",
     datetime |-> "string", time |-> "string", user |-> "object"]

FormatOf(t) ==
    CASE t = "date" -> "date"
      [] t = "datetime" -> "date-time"
      [] t = "time" -> "time"
      [] t = "email" -> "email"
      [] t \in {"uri", "url"} -> "uri"
      [] OTHER -> ""

\* the descriptions that hold a parenthesis, as characters: single-character
\* tokens "(", ")", "|", " " and words; a prefix, a group of entries, a suffix
MaxEntries == 2
Prefixes == {<<>>, <<"s">>, <<"a", "(", "x", ")", " ">>}
Entries ==
    {<<"open">>, <<"open", " ", "kai">>, <<"closed", " ", "guan">>,
     <<" ", "closed", " ", "guan">>, <<"open", " ", "kai", " ">>}

RECURSIVE JoinWith(_, _)
\* sep.join(parts), as tokens
JoinWith(parts, sep) ==
    IF parts = <<>> THEN <<>>
    ELSE IF Len(parts) = 1 THEN parts[1]
    ELSE parts[1] \o <<sep>> \o JoinWith(Tail(parts), sep)

DescInputs ==
    {pre \o <<"(">> \o JoinWith(es, "|") \o <<")">> :
        pre \in Prefixes,
        es \in UNION {[1..n -> Entries] : n \in 0..MaxEntries}}

\* the positions of a ")" at least one character after position i
CloseAfter(t, i) == {j \in (i + 2)..Len(t) : t[j] = ")"}

\* the positions of a "(" that has such a ")"
OpenSet(t) == {i \in 1..Len(t) : t[i] = "(" /\ CloseAfter(t, i) # {}}

GroupFrom(t, i) == SubSeq(t, i + 1, FirstOf(CloseAfter(t, i)) - 1)

ParenGroupIn(t, O) ==
    IF O = {} THEN [found |-> FALSE, group |-> <<>>]
    ELSE [found |-> TRUE, group |-> GroupFrom(t, FirstOf(O))]

\* re.search(r'\((.+?)\)', param_desc).group(1): from the first "(" that has a
\* ")" at least one character later, up to the first such ")"; <<>> and
\* found = FALSE when there is none
ParenGroup(t) == ParenGroupIn(t, OpenSet(t))

RECURSIVE SplitOn(_, _)
SplitCut(t, sep, i) == <<SubSeq(t, 1, i - 1)>> \o SplitOn(SubSeq(t, i + 1, Len(t)), sep)

SplitAt(t, sep, S) == IF S = {} THEN <<t>> ELSE SplitCut(t, sep, FirstOf(S))

\* str.split(sep): always at least one piece
SplitOn(t, sep) == SplitAt(t, sep, {i \in 1..Len(t) : t[i] = sep})

RECURSIVE Strip(_)
\* str.strip() on tokens
Strip(t) ==
    IF t # <<>> /\ t[1] = " " THEN Strip(Tail(t))
    ELSE IF t # <<>> /\ t[Len(t)] = " " THEN Strip(SubSeq(t, 1, Len(t) - 1))
    ELSE t

\* v.split(' ')[0]
FirstPiece(v) == Join(SplitOn(v, " ")[1])

\* ' '.join(v.split(' ')[1:]).strip()
RestStripped(v) == Join(Strip(JoinWith(Tail(SplitOn(v, " ")), " ")))

\* descriptions written in a table row, pipes included
EnumTexts ==
    {<<"(", "open", " ", "kai", "|", "closed", " ", "guan", ")">>,
     <<"s", "(", "open", "|", "open", ")">>,
     <<"(", "open", " ", "kai", ")">>}

\* [c.strip() for c in line.split('|')[1:-1]] on the part of a row that holds
\* the text t: the cells the text is cut into
CellsOf(t) == [i \in 1..Len(SplitOn(t, "|")) |-> Join(Strip(SplitOn(t, "|")[i]))]

CellTexts ==
    UNION {{Strip(SplitOn(t, "|")[i]) : i \in 1..Len(SplitOn(t, "|"))} : t \in EnumTexts}

\* a string of the model is opaque: its characters are looked up among the
\* descriptions above; any other description holds no parenthesis
DescTable == {<<Join(t), t>> : t \in DescInputs \cup CellTexts}
DescStrings == {p[1] : p \in DescTable}
DescChars(desc) ==
    IF desc \in DescStrings THEN (CHOOSE p \in DescTable : p[1] = desc)[2] ELSE <<desc>>

EntriesOf(m) == IF m.found THEN SplitOn(m.group, "|") ELSE <<>>

\* enum_str.split('|') of the first parenthesized group of a description;
\* <<>> when the description has no such group
\* the first parenthesized group split on blanks instead of pipes
ParenEntriesOnBlank(desc) ==
    IF ParenGroup(DescChars(desc)).found
    THEN SplitOn(ParenGroup(DescChars(desc)).group, " ") ELSE <<>>

ParenEntries(desc) == EntriesOf(ParenGroup(DescChars(desc)))

\* lines 450-455: enum and x-enum-descriptions from the entries
EnumFields(vals, descs) ==
    IF \E i \in 1..Len(descs) : descs[i] # ""
    THEN [enum |-> vals, x_enum_descriptions |-> descs]
    ELSE [enum |-> vals]

WithEnum(schema, es) ==
    IF Len(es) > 1
    THEN schema @@ EnumFields([i \in 1..Len(es) |-> FirstPiece(es[i])],
                              [i \in 1..Len(es) |-> RestStripped(es[i])])
    ELSE schema

DefaultDesc == "renwumiaoshu"   \* 任务描述

determine_schema_type(param_type, param_desc, param_name) ==
    LET t  == Lower(param_type)
        s0 == [type |-> "string"]
        s1 == IF param_desc # "" THEN s0 @@ [description |-> param_desc] ELSE s0
        s2 == IF t \in DOMAIN type_mapping
              THEN [k \in DOMAIN s1 |-> IF k = "type" THEN type_mapping[t] ELSE s1[k]]
              ELSE s1
        s3 == IF FormatOf(t) # "" THEN s2 @@ [format |-> FormatOf(t)] ELSE s2
        s4 == WithEnum(s3, ParenEntries(param_desc))
    IN IF param_name # "" /\ Lower(param_name) = "desc"
       THEN [type |-> "string",
             description |-> IF param_desc # "" THEN param_desc ELSE DefaultDesc]
       ELSE s4

(***************************************************************************)
(* parse_request_body_schema / parse_response_schema                       *)
(***************************************************************************)
Raised == [raised |-> TRUE]
IsRaised(v) == "raised" \in DOMAIN v

RespTitles == <<RespParams, ReqResp, RespFields, RetParams>>

IsRowAt(doc, i) == i # 0 /\ doc[i].k = "row"

RECURSIVE DataRows(_, _)
\* ((?:\s*\|[^\n]+\|\s*\n)*): the rows that follow line s, blank lines skipped
DataRows(doc, s) ==
    LET r == NextNonBlank(doc, s)
    IN IF IsRowAt(doc, r) THEN <<doc[r].cells>> \o DataRows(doc, r) ELSE <<>>

\* table_pattern at line i: a bold title or a section heading, then two rows
TableAt(doc, i, titles) ==
    LET l == doc[i]
        h == NextNonBlank(doc, i)
        s == IF h = 0 THEN 0 ELSE NextNonBlank(doc, h)
    IN /\ \/ l.k = "bold" /\ l.cells # <<>>
          \/ \E t \in 1..Len(titles) : IsSectionHead(l, titles[t])
       /\ IsRowAt(doc, h)
       /\ IsRowAt(doc, s)

\* one entry of `tables`; content None is kept as the flag noContent
TableEntry(doc, i) ==
    LET rows == DataRows(doc, NextNonBlank(doc, NextNonBlank(doc, i)))
    IN IF doc[i].k = "head"
       THEN IF rows # <<>>
            THEN [title |-> <<"root">>, rows |-> rows, noContent |-> FALSE]
            ELSE [title |-> <<>>, rows |-> <<>>, noContent |-> TRUE]
       ELSE [title |-> doc[i].cells, rows |-> rows, noContent |-> FALSE]

RECURSIVE TablesFrom(_, _, _)
TablesFrom(doc, i, titles) ==
    IF i > Len(doc) THEN <<>>
    ELSE IF TableAt(doc, i, titles)
         THEN <<TableEntry(doc, i)>> \o TablesFrom(doc, i + 1, titles)
         ELSE TablesFrom(doc, i + 1, titles)

RECURSIVE RowPropsAnyMark(_)
\* RowProps with every non-empty required cell taken as the marker
RowPropsAnyMark(rows) ==
    IF rows = <<>> THEN <<>>
    ELSE LET c == Head(rows)
         IN IF Len(c) >= 4
            THEN <<[name |-> c[1], type |-> Lower(c[2]), required |-> (c[3] # ""),
                    description |-> c[4]]>> \o RowPropsAnyMark(Tail(rows))
            ELSE RowPropsAnyMark(Tail(rows))

RECURSIVE RowProps(_)
\* the rows of one table as properties: fewer than 4 cells are dropped
RowProps(rows) ==
    IF rows = <<>> THEN <<>>
    ELSE LET c == Head(rows)
         IN IF Len(c) >= 4
            THEN <<[name |-> c[1], type |-> Lower(c[2]), required |-> (c[3] = Shi),
                    description |-> c[4]]>> \o RowProps(Tail(rows))
            ELSE RowProps(Tail(rows))

RECURSIVE DictSet(_, _, _)
\* d[key] = val on an insertion-ordered dict kept as a sequence of entries
DictSet(d, key, val) ==
    IF d = <<>> THEN <<[key |-> key, val |-> val]>>
    ELSE IF Head(d).key = key THEN <<[key |-> key, val |-> val]>> \o Tail(d)
    ELSE <<Head(d)>> \o DictSet(Tail(d), key, val)

RECURSIVE ParsedTables(_, _)
ParsedTables(tables, acc) ==
    IF tables = <<>> THEN acc
    ELSE ParsedTables(Tail(tables),
                      DictSet(acc, Head(tables).title, RowProps(Head(tables).rows)))

EmptyObject == [type |-> "object", properties |-> <<>>, required |-> <<>>]

RECURSIVE AddProps(_, _)
\* schema['properties'][name] = ...; if required: schema['required'].append(name)
AddProps(schema, props) ==
    IF props = <<>> THEN schema
    ELSE LET q == Head(props)
             ps == (q.name :> determine_schema_type(q.type, q.description, q.name))
                   @@ schema.properties
             rq == IF q.required THEN Append(schema.required, q.name) ELSE schema.required
         IN AddProps([schema EXCEPT !.properties = ps, !.required = rq], Tail(props))

DelKey(d, key) == [k \in DOMAIN d \ {key} |-> d[k]]

\* the empty `required` list left in place
KeepEmptyRequired(schema) == schema

\* if not schema['required']: del schema['required']
DropEmptyRequired(schema) ==
    IF schema.required = <<>> THEN DelKey(schema, "required") ELSE schema

ArrayWords == {"shuzu", ArrMark, "array"}   \* '数组' in obj_type or 'array' in obj_type

\* d[key] = val on a dict kept as a record
SetKey(d, key, val) == (key :> val) @@ d

ComposeChild(root, title, props) ==
    LET parent_name == title[1]
        obj_type    == Tail(title)
        child       == DropEmptyRequired(AddProps(EmptyObject, props))
    IN IF title = <<"root">> \/ Len(title) < 2 THEN root
       ELSE IF parent_name \in DOMAIN root.properties
            THEN IF \E i \in 1..Len(obj_type) : Lower(obj_type[i]) \in ArrayWords
                 THEN [root EXCEPT !.properties =
                          SetKey(@, parent_name, SetKey(@[parent_name], "items", child))]
                 ELSE [root EXCEPT !.properties = SetKey(@, parent_name, child)]
            ELSE root

RECURSIVE ComposeAll(_, _)
ComposeAll(root, parsed) ==
    IF parsed = <<>> THEN root
    ELSE ComposeAll(ComposeChild(root, Head(parsed).key, Head(parsed).val), Tail(parsed))

BuildSchema(parsed) ==
    LET R    == {i \in 1..Len(parsed) : parsed[i].key = <<"root">>}
        root == IF R = {} THEN EmptyObject
                ELSE AddProps(EmptyObject, parsed[FirstOf(R)].val)
    IN DropEmptyRequired(ComposeAll(root, parsed))

ParseSchema(doc, titles) ==
    LET tables == TablesFrom(doc, 1, titles)
    IN IF \A t \in 1..Len(titles) : ~SectionFound(doc, titles[t]) THEN None
       ELSE IF tables = <<>> THEN None
       ELSE IF \E i \in 1..Len(tables) : tables[i].noContent THEN Raised
       ELSE BuildSchema(ParsedTables(tables, <<>>))

parse_request_body_schema(doc) == ParseSchema(doc, <<ReqBody>>)

parse_response_schema(doc) == ParseSchema(doc, RespTitles)

(***************************************************************************)
(* JSON examples.  A fenced block is the fence, one line of JSON text and  *)
(* the closing fence; the text is kept as json.loads' result: valid or     *)
(* not, its top-level kind, and for an object its items in order, each     *)
(* value by its Python type t (and, for a list, the type e of value[0],    *)
(* "empty" for []).                                                        *)
(***************************************************************************)
\* re.search(r'####\s*TITLE\s*\n```(?:json)?\s*([\s\S]+?)\s*```', content)
ExampleAt(doc, i, title) ==
    LET f == NextNonBlank(doc, i)
    IN /\ IsSectionHead(doc[i], title)
       /\ f # 0 /\ f + 2 <= Len(doc)
       /\ doc[f].k = "fence" /\ doc[f + 1].k = "json" /\ doc[f + 2].k = "fence"

ExampleHeads(doc, title) == {i \in 1..Len(doc) : ExampleAt(doc, i, title)}

ExampleFound(doc, title) == ExampleHeads(doc, title) # {}

\* a json.loads that reads an unparseable block as the empty object
ExampleJsonLenient(doc, title) ==
    LET v == doc[NextNonBlank(doc, FirstOf(ExampleHeads(doc, title))) + 1].v
    IN IF v.valid THEN v ELSE [valid |-> TRUE, kind |-> "dict", obj |-> <<>>]

\* json.loads(match.group(1)); only used when the example is found
ExampleJson(doc, title) == doc[NextNonBlank(doc, FirstOf(ExampleHeads(doc, title))) + 1].v

request_fields ==
    {"name", "title", "type", "status", "assignedTo", "date", "desc", "estStarted",
     "deadline"}

JsonKeys(v) == {v.obj[i].key : i \in 1..Len(v.obj)}

\* the test of line 248 answering yes for every JSON object
LooksLikeAnyObject(v) == v.valid /\ v.kind = "dict"

\* any(field in example_json for field in request_fields), inside its try: for
\* a dict the test is on its keys; json.loads raising, or `in` raising on a
\* number, true, false or null, is caught and leaves the example unused
LooksLikeRequest(v) == v.valid /\ v.kind = "dict" /\ JsonKeys(v) \cap request_fields # {}

\* the isinstance chain of lines 268-300; bool is a subclass of int in Python,
\* so the int test answers for True and False
ValueSchema(item) ==
    CASE item.t = "str" -> [type |-> "string"]
      [] item.t \in {"int", "bool"} -> [type |-> "integer"]
      [] item.t = "float" -> [type |-> "number"]
      [] item.t = "list" ->
            [type |-> "array",
             items |-> CASE item.e = "str" -> [type |-> "string"]
                         [] item.e \in {"int", "bool"} -> [type |-> "integer"]
                         [] item.e = "dict" -> [type |-> "object"]
                         [] OTHER -> [type |-> "string"]]
      [] item.t = "dict" -> [type |-> "object"]
      [] OTHER -> [type |-> "string"]

RECURSIVE ExampleProps(_)
ExampleProps(items) ==
    IF items = <<>> THEN <<>>
    ELSE SetKey(ExampleProps(SubSeq(items, 1, Len(items) - 1)),
                items[Len(items)].key, ValueSchema(items[Len(items)]))

Body(schema) == [required |-> TRUE, schema |-> schema]

(***************************************************************************)
(* parse_markdown_file, one action per block of the function.              *)
(***************************************************************************)
HeaderNames == {"token", "authorization", "cookie", "content-type"}

Param(name, where, required, desc, schema) ==
    [name |-> name, in |-> where, required |-> required, description |-> desc,
     schema |-> schema]

RECURSIVE PathParamList(_)
PathParamList(names) ==
    IF names = <<>> THEN <<>>
    ELSE <<Param(Head(names), "path", TRUE, "lujingcanshu " \o Head(names),
                 [type |-> "string"])>> \o PathParamList(Tail(names))

RECURSIVE RowParams(_, _, _, _)
\* the loop over lines[2:] of a header or request-parameters table; withName
\* tells whether the name is handed to determine_schema_type
RowParams(headers, rows, where, withName) ==
    IF rows = <<>> THEN <<>>
    ELSE LET cols == Head(rows).cells
             name == GetCol(headers, cols, ColName, "")
             type == Lower(GetCol(headers, cols, ColType, ""))
             req  == GetCol(headers, cols, ColRequired, "") = Shi
             desc == GetCol(headers, cols, ColDesc, "")
         IN IF Len(cols) # Len(headers) THEN RowParams(headers, Tail(rows), where, withName)
            ELSE <<Param(name, where, req, desc,
                         determine_schema_type(type, desc, IF withName THEN name ELSE ""))>>
                 \o RowParams(headers, Tail(rows), where, withName)

\* the parameters a table section gives: nothing unless it has two pipe lines
TableParams(doc, title, where, withName) ==
    LET lines == IF SectionFound(doc, title) THEN PipeLines(SectionGroup(doc, title))
                 ELSE <<>>
    IN IF Len(lines) >= 2
       THEN RowParams(lines[1].cells, SubSeq(lines, 3, Len(lines)), where, withName)
       ELSE <<>>

MatchTitle ==
    /\ pc = "start"
    /\ IF TitleMatches(content) = {}
       THEN /\ result' = None
            /\ pc' = "done"
            /\ UNCHANGED <<method, path, description>>
       ELSE LET i == FirstOf(TitleMatches(content))
            IN /\ method' = Lower(content[i].w)
               /\ path' = NormalizePath(TitleGroup2(content, i))
               /\ description' =
                     IF DescMatches(content) = {} THEN <<>>
                     ELSE LineTokens(content[DescLine(content, FirstOf(DescMatches(content)))])
               /\ pc' = "path_params"
               /\ UNCHANGED result
    /\ UNCHANGED <<content, req_params, request_body, response_schema, used>>
    /\ UNCHANGED <<call_vars, build_vars, main_vars, cli_vars>>

PathParams ==
    /\ pc = "path_params"
    /\ req_params' = PathParamList(FindBraces(path))
    /\ pc' = "req_head"
    /\ UNCHANGED <<content, method, path, description, request_body, response_schema, result, used>>
    /\ UNCHANGED <<call_vars, build_vars, main_vars, cli_vars>>

HeaderTable ==
    /\ pc = "req_head"
    /\ req_params' = req_params \o TableParams(content, ReqHead, "header", FALSE)
    /\ pc' = "req_body"
    /\ UNCHANGED <<content, method, path, description, request_body, response_schema, result, used>>
    /\ UNCHANGED <<call_vars, build_vars, main_vars, cli_vars>>

BodyMethods == {"post", "put", "patch"}

\* lines 86-109: strategy (a), the 请求体 table
RequestBodyTable ==
    /\ pc = "req_body"
    /\ LET schema == IF SectionFound(content, ReqBody)
                     THEN parse_request_body_schema(content) ELSE None
           ex     == IF ExampleFound(content, ReqExample)
                     THEN ExampleJson(content, ReqExample) ELSE NoJson
       IN IF IsRaised(schema)
          THEN /\ result' = Raised
               /\ pc' = "done"
               /\ UNCHANGED <<request_body, used>>
          ELSE /\ request_body' =
                     IF IsNone(schema) THEN None
                     ELSE IF ex.valid THEN SetKey(Body(schema), "example", ex)
                     ELSE Body(schema)
               /\ used' = IF IsNone(schema) THEN used ELSE Append(used, "a")
               /\ pc' = "req_params"
               /\ UNCHANGED result
    /\ UNCHANGED <<content, method, path, description, req_params, response_schema>>
    /\ UNCHANGED <<call_vars, build_vars, main_vars, cli_vars>>

\* for title in ['请求参数', '请求字段']: the first title whose section is found
ReqParamsTitle(doc) ==
    IF SectionFound(doc, ReqParams) THEN ReqParams
    ELSE IF SectionFound(doc, ReqFields) THEN ReqFields
    ELSE ""

\* the header-name test without .lower()
IsHeaderRowCaseSensitive(p) == p.name \in HeaderNames

\* the rows of lines 188-212 that are header parameters
IsHeaderRow(p) == Lower(p.name) \in HeaderNames

RECURSIVE BodyProps(_, _)
\* lines 182-216: the schema built from the rows that are not header rows
BodyProps(schema, ps) ==
    IF ps = <<>> THEN schema
    ELSE LET q == Head(ps)
         IN IF IsHeaderRow(q) THEN BodyProps(schema, Tail(ps))
            ELSE BodyProps([schema EXCEPT
                              !.properties = SetKey(@, q.name, q.schema),
                              !.required = IF q.required THEN Append(@, q.name) ELSE @],
                           Tail(ps))

\* lines 111-229: the 请求头参数 table, then strategy (b), the request-parameters table
RequestParams ==
    /\ pc = "req_params"
    /\ IF ~IsNone(request_body)
       THEN UNCHANGED <<req_params, request_body, used>>
       ELSE LET title == ReqParamsTitle(content)
                hdrs  == TableParams(content, ReqHeadParams, "header", TRUE)
                lines == IF title = "" THEN <<>>
                         ELSE PipeLines(SectionGroup(content, title))
                q     == TableParams(content, title, "query", TRUE)
                h     == TableParams(content, title, "header", TRUE)
            IN IF title = "" \/ Len(lines) < 2
               THEN /\ req_params' = req_params \o hdrs
                    /\ UNCHANGED <<request_body, used>>
               ELSE IF method = "get"
               THEN /\ req_params' = req_params \o hdrs \o q
                    /\ used' = Append(used, "b")
                    /\ UNCHANGED request_body
               ELSE IF method \in BodyMethods
               THEN /\ req_params' = req_params \o hdrs \o SelectSeq(h, IsHeaderRow)
                    /\ request_body' = Body(DropEmptyRequired(BodyProps(EmptyObject, h)))
                    /\ used' = Append(used, "b")
               ELSE /\ req_params' = req_params \o hdrs
                    /\ UNCHANGED <<request_body, used>>
    /\ pc' = "req_example"
    /\ UNCHANGED <<content, method, path, description, response_schema, result>>
    /\ UNCHANGED <<call_vars, build_vars, main_vars, cli_vars>>

\* lines 231-313: strategies (c) and (d), the JSON examples
RequestExample ==
    /\ pc = "req_example"
    /\ IF ~IsNone(request_body)
       THEN UNCHANGED <<request_body, used>>
       ELSE LET own  == ExampleFound(content, ReqExample)
                resp == /\ ~own
                        /\ method \in BodyMethods
                        /\ ExampleFound(content, RespExample)
                        /\ LooksLikeRequest(ExampleJson(content, RespExample))
                v    == IF own THEN ExampleJson(content, ReqExample)
                        ELSE IF resp THEN ExampleJson(content, RespExample)
                        ELSE NoJson
            IN IF (own \/ resp) /\ v.valid /\ v.kind = "dict"
               THEN /\ request_body' =
                          SetKey(Body([type |-> "object", properties |-> ExampleProps(v.obj)]),
                                 "example", v)
                    /\ used' = Append(used, IF own THEN "c" ELSE "d")
               ELSE UNCHANGED <<request_body, used>>
    /\ pc' = "response"
    /\ UNCHANGED <<content, method, path, description, req_params, response_schema, result>>
    /\ UNCHANGED <<call_vars, build_vars, main_vars, cli_vars>>

\* line 316
ResponseSchema ==
    /\ pc = "response"
    /\ LET schema == parse_response_schema(content)
       IN IF IsRaised(schema)
          THEN /\ result' = Raised
               /\ pc' = "done"
               /\ UNCHANGED response_schema
          ELSE /\ response_schema' = schema
               /\ pc' = "token"
               /\ UNCHANGED result
    /\ UNCHANGED <<content, method, path, description, req_params, request_body, used>>
    /\ UNCHANGED <<call_vars, build_vars, main_vars, cli_vars>>

ErrorRef == [ref |-> "#/components/schemas/Error"]

\* lines 319-358
Responses(schema) ==
    [r200 |-> [description |-> "chenggongxiangying",
               schema |-> IF IsNone(schema) THEN [type |-> "object"] ELSE schema],
     r400 |-> [description |-> "qingqiucuowu", schema |-> ErrorRef],
     r401 |-> [description |-> "weishouquan", schema |-> ErrorRef],
     r500 |-> [description |-> "fuwuqicuowu", schema |-> ErrorRef]]

\* the Token test without its `in` == 'header' half
has_token_anywhere(params) == \E i \in 1..Len(params) : Lower(params[i].name) = "token"

has_token(params) ==
    \E i \in 1..Len(params) : Lower(params[i].name) = "token" /\ params[i].in = "header"

TokenDesc == "renzhengToken"   \* 认证Token

SyntheticToken ==
    Param("Token", "header", FALSE, TokenDesc, [type |-> "string", description |-> TokenDesc])

\* lines 364-373
WithToken(params) == IF has_token(params) THEN params ELSE Append(params, SyntheticToken)

\* lines 364-383
TokenAndReturn ==
    /\ pc = "token"
    /\ req_params' = WithToken(req_params)
    /\ result' = [path |-> path, method |-> method, description |-> description,
                  parameters |-> req_params', request_body |-> request_body,
                  responses |-> Responses(response_schema),
                  response_schema |-> response_schema]
    /\ pc' = "done"
    /\ UNCHANGED <<content, method, path, description, request_body, response_schema, used>>
    /\ UNCHANGED <<call_vars, build_vars, main_vars, cli_vars>>

Next ==
    \/ MatchTitle
    \/ PathParams
    \/ HeaderTable
    \/ RequestBodyTable
    \/ RequestParams
    \/ RequestExample
    \/ ResponseSchema
    \/ TokenAndReturn

(***************************************************************************)
(* The documents the extractor is run on.  They follow the layout the      *)
(* crawler writes (crawler_21_6.py, lines 352-360 and 509-530): a title,   *)
(* a description, then sections of a heading, a blank line and a table or  *)
(* a fenced JSON block, each followed by blank lines.                      *)
(***************************************************************************)
MaxSegs == 3
MaxRows == 2
MaxKeys == 2
MaxBlocks == 2

SeqsUpTo(S, n) == UNION {[1..k -> S] : k \in 0..n}

RECURSIVE Flatten(_)
Flatten(ss) == IF ss = <<>> THEN <<>> ELSE Head(ss) \o Flatten(Tail(ss))

StdHeader == <<ColName, ColType, ColRequired, ColDesc>>
SepRow == <<"---", "---", "---", "---">>
Table(rows) == <<Row(StdHeader), Row(SepRow)>> \o [i \in 1..Len(rows) |-> Row(rows[i])]
Sec(title, rows) == <<Heading(4, title, <<>>), Blank>> \o Table(rows) \o <<Blank, Blank>>
SubTable(words, rows) == <<Bold(words), Blank>> \o Table(rows) \o <<Blank>>
Example(title, v) == <<Heading(4, title, <<>>), Blank, Fence, Json(v), Fence, Blank>>
Title(m, p) == <<Heading(3, m, p), Blank>>
DescText == <<Text("d"), Blank>>

JObj(items) == [valid |-> TRUE, kind |-> "dict", obj |-> items]
JList == [valid |-> TRUE, kind |-> "list", obj |-> <<>>]
JInvalid == NoJson
Item(key, t, e) == [key |-> key, t |-> t, e |-> e]

\* titles and paths
Segs ==
    {<<"a">>, <<":", "x">>, <<":", "id">>, <<"{", "id", "}">>, <<"{", "id", "}", ":">>,
     <<":", "x", ":">>, <<"a", ":", "x">>}

RECURSIVE PathOf(_)
PathOf(segs) == IF segs = <<>> THEN <<>> ELSE <<"/">> \o Head(segs) \o PathOf(Tail(segs))

Paths == {PathOf(ss) : ss \in SeqsUpTo(Segs, MaxSegs) \ {<<>>}}

TitleDocs ==
    {Title(m, p) \o DescText : m \in {"GET"}, p \in Paths}
    \cup {Title(m, <<"/", "a", "/", ":", "id">>) \o d \o t :
            m \in {"GET", "POST", "PUT", "PATCH", "DELETE"},
            d \in {<<>>, DescText, <<Blank, Blank>>},
            t \in {<<>>, Sec(ReqHead, <<<<"Token", "string", Shi, "d">>>>)}}

\* documents without a title line
Blocks ==
    {DescText,
     Sec(ReqHead, <<<<"Token", "string", Shi, "d">>>>),
     Sec(ReqBody, <<<<"title", "string", Shi, "">>>>),
     Example(RespExample, JObj(<<Item("name", "str", "")>>)),
     <<Heading(4, RespParams, <<>>)>>,
     <<Heading(2, "info", <<>>), Blank>>,
     <<Row(StdHeader), Row(SepRow), Blank>>}

NoTitleDocs == {Flatten(bs) : bs \in SeqsUpTo(Blocks, MaxBlocks)}

\* the request-body strategies: which sections are present
TitleRow == <<"title", "string", Shi, "">>
QueryRow == <<"q", "int", Fou, "d">>
TokenRow == <<"Token", "string", Shi, "d">>

StrategyDocs ==
    {Title(m, <<"/", "a">>) \o DescText \o b \o p \o e \o r :
        m \in {"GET", "POST", "PUT", "DELETE"},
        b \in {<<>>, Sec(ReqBody, <<TitleRow>>), Sec(ReqBody, <<>>)},
        p \in {<<>>, Sec(ReqParams, <<QueryRow>>), Sec(ReqFields, <<TokenRow, TitleRow>>)},
        e \in {<<>>} \cup {Example(ReqExample, v) :
                 v \in {JObj(<<Item("id", "int", "")>>), JInvalid, JList}},
        r \in {<<>>} \cup {Example(RespExample, v) :
                 v \in {JObj(<<Item("name", "str", "")>>), JObj(<<Item("id", "int", "")>>)}}}

\* header and request-parameters tables
ParamRows ==
    {TokenRow, <<"Cookie", "string", Fou, "">>, <<"name", "string", Shi, "d">>,
     QueryRow, <<"desc", "int", Shi, "">>, <<"bad", "int", Shi>>}

ParamDocs ==
    {Title(m, <<"/", "a", "/", ":", "id">>) \o DescText \o h \o hp \o Sec(ReqParams, rows) :
        m \in {"GET", "POST", "DELETE"},
        h \in {<<>>, Sec(ReqHead, <<TokenRow>>),
               Sec(ReqHead, <<<<"token", "string", Fou, "">>, TokenRow>>)},
        hp \in {<<>>, Sec(ReqHeadParams, <<<<"TOKEN", "string", Shi, "">>>>)},
        rows \in SeqsUpTo(ParamRows, MaxRows)}

\* request-body and response tables with their sub-tables
BodyRows ==
    {TitleRow, <<"count", "int", Fou, "">>, <<"count", "INT", Shi, "d">>,
     <<"desc", "int", Shi, "">>, <<"list", "array", Fou, "">>,
     <<"obj", "object", Shi, "d">>, <<"short", "int", Shi>>,
     <<"when", "datetime", "", "d", "extra">>}

SubTables ==
    {<<>>,
     SubTable(<<"list", ArrMark>>, <<<<"id", "int", Shi, "">>>>),
     SubTable(<<"count", ArrMark>>, <<<<"id", "int", Shi, "">>>>),
     SubTable(<<"obj", ObjMark>>, <<<<"n", "string", Fou, "">>>>),
     SubTable(<<"obj", ObjMark>>, <<<<"n", "string", Fou, "">>>>)
        \o SubTable(<<"list", ArrMark>>, <<<<"id", "int", Shi, "">>, <<"desc", "int", Fou, "">>>>),
     SubTable(<<"obj", ObjMark>>, <<<<"inner", "array", Fou, "">>>>)
        \o SubTable(<<"inner", ArrMark>>, <<<<"id", "int", Shi, "">>>>)}

RespSections ==
    {<<>>,
     Sec(RespParams, <<<<"list", "array", Fou, "">>, <<"code", "int", Shi, "">>>>)
        \o SubTable(<<"list", ArrMark>>, <<<<"rname", "string", Shi, "">>>>)}

TableDocs ==
    {Title("POST", <<"/", "a">>) \o DescText \o Sec(ReqBody, rows) \o st \o rs :
        rows \in SeqsUpTo(BodyRows, MaxRows), st \in SubTables, rs \in RespSections}

\* request bodies inferred from a JSON example
KeyNames == <<"name", "count", "tags", "extra">>

ItemKinds ==
    {<<"str", "">>, <<"int", "">>, <<"float", "">>, <<"bool", "">>, <<"null", "">>,
     <<"dict", "">>, <<"list", "str">>, <<"list", "int">>, <<"list", "float">>,
     <<"list", "bool">>, <<"list", "dict">>, <<"list", "empty">>}

JsonObjects ==
    {JObj([i \in 1..Len(ks) |-> Item(KeyNames[i], ks[i][1], ks[i][2])]) :
        ks \in SeqsUpTo(ItemKinds, MaxKeys)}

JsonDocs == {Title("POST", <<"/", "a">>) \o DescText \o Example(ReqExample, v) : v \in JsonObjects}

\* tables with one row whose description is written with its pipes: under the
\* four-column header, and under a header of five columns
StatusRow(t) == <<"status", "string", Shi>> \o CellsOf(t)
WideSec(title, rows) ==
    <<Heading(4, title, <<>>), Blank, Row(StdHeader \o <<"x">>), Row(SepRow \o <<"---">>)>>
    \o [i \in 1..Len(rows) |-> Row(rows[i])] \o <<Blank, Blank>>

EnumRowDocs ==
    {Title(m, <<"/", "a">>) \o DescText \o sec :
        m \in {"GET", "POST"},
        sec \in {Sec(w, <<StatusRow(t)>>) :
                    w \in {ReqHead, ReqParams, ReqBody, RespParams}, t \in EnumTexts}
                \cup {WideSec(w, <<StatusRow(t)>>) :
                         w \in {ReqHead, ReqBody}, t \in EnumTexts}}

Docs ==
    TitleDocs \cup NoTitleDocs \cup StrategyDocs \cup ParamDocs \cup TableDocs \cup JsonDocs
    \cup EnumRowDocs

\* no function called, nothing assembled: the other parts of the program at rest
NoCall == [fn |-> "", type |-> "", desc |-> <<>>, name |-> "", path |-> <<>>,
           method |-> "", is_response |-> FALSE, rows |-> <<>>,
           html_files |-> <<>>, md_files |-> <<>>]
CallIdle == call = NoCall /\ ret = None
NoFile == [readable |-> FALSE, lines |-> <<>>]
BuildIdle == api_list = <<>> /\ info_md = NoFile /\ openapi = None /\ calls = 0
NoFiles == [docs |-> <<>>, i |-> 0]
MainIdle == files = NoFiles
CliIdle ==
    /\ cli_pc = "idle" /\ driver = "none" /\ quits = 0 /\ closes = 0 /\ crawls = 0
    /\ outdir = {} /\ events = <<>>

Init ==
    /\ content \in Docs
    /\ pc = "start"
    /\ method = ""
    /\ path = <<>>
    /\ description = <<>>
    /\ req_params = <<>>
    /\ request_body = None
    /\ response_schema = None
    /\ result = None
    /\ used = <<>>
    /\ CallIdle
    /\ BuildIdle
    /\ MainIdle
    /\ CliIdle

Spec == Init /\ [][Next]_vars

(***************************************************************************)
(* determine_schema_type, generate_operation_id and generate_schema_name   *)
(* have no side effects: each is called once on arguments drawn from the   *)
(* sets below.                                                             *)
(***************************************************************************)
\* part[0].upper() + part[1:] on the first token of a part
Capitalize(w) ==
    CASE w = "a" -> "A"
      [] w = "b" -> "B"
      [] w = "aB" -> "AB"
      [] w = "id" -> "Id"
      [] w = "bugs" -> "Bugs"
      [] w = "executions" -> "Executions"
      [] w = "builds" -> "Builds"
      [] OTHER -> w

\* [p for p in path.strip('/').split('/') if p]
PathParts(p) == SelectSeq(SplitOn(p, "/"), LAMBDA part : part # <<>>)

\* every part treated as a literal one
ProcessedPartLiteral(part) == Capitalize(part[1]) \o Join(Tail(part))

\* lines 799-805: 'Id' for a part in braces, else the part with its first
\* letter in upper case
ProcessedPart(part) ==
    IF part[1] = "{" /\ part[Len(part)] = "}" THEN "Id"
    ELSE Capitalize(part[1]) \o Join(Tail(part))

generate_operation_id(p, m) ==
    LET parts == PathParts(p)
    IN Lower(m) \o Join([i \in 1..Len(parts) |-> ProcessedPart(parts[i])])

generate_schema_name(p, m, is_response) ==
    generate_operation_id(p, m) \o (IF is_response THEN "Response" ELSE "Request")

FileIdle ==
    /\ content = <<>>
    /\ pc = "idle"
    /\ method = ""
    /\ path = <<>>
    /\ description = <<>>
    /\ req_params = <<>>
    /\ request_body = None
    /\ response_schema = None
    /\ result = None
    /\ used = <<>>

TypeInputs == {"string", "int", "datetime"}
NameInputs == {"status", "desc", ""}
MethodInputs == {"GET", "DELETE", "post"}
IdSegs ==
    {<<"a">>, <<"b">>, <<"aB">>, <<"id">>, <<"bugs">>, <<"{", "id", "}">>, <<"{", "x", "}">>,
     <<"a", "{", "x", "}">>}
PathInputs ==
    {PathOf(ss) : ss \in SeqsUpTo(IdSegs, MaxSegs)}
    \cup {<<"/", "executions", "/", "{", "id", "}", "/", "builds">>}

CallSchemaType ==
    /\ call = NoCall
    /\ \E t \in TypeInputs, d \in DescInputs \cup {<<>>, <<"d">>}, n \in NameInputs :
          /\ call' = [NoCall EXCEPT !.fn = "determine_schema_type", !.type = t,
                                    !.desc = DescChars(Join(d)), !.name = n]
          /\ ret' = determine_schema_type(t, Join(d), n)
    /\ UNCHANGED <<file_vars, build_vars, main_vars, cli_vars>>

CallOperationId ==
    /\ call = NoCall
    /\ \E p \in PathInputs, m \in MethodInputs :
          /\ call' = [NoCall EXCEPT !.fn = "generate_operation_id", !.path = p, !.method = m]
          /\ ret' = generate_operation_id(p, m)
    /\ UNCHANGED <<file_vars, build_vars, main_vars, cli_vars>>

CallSchemaName ==
    /\ call = NoCall
    /\ \E p \in PathInputs, m \in MethodInputs, r \in BOOLEAN :
          /\ call' = [NoCall EXCEPT !.fn = "generate_schema_name", !.path = p, !.method = m,
                                    !.is_response = r]
          /\ ret' = generate_schema_name(p, m, r)
    /\ UNCHANGED <<file_vars, build_vars, main_vars, cli_vars>>

(***************************************************************************)
(* WebCrawler_21_6.parse_table_recursive: the rows of an HTML table, each  *)
(* the tokens of its name cell (leading marks included), its type and its  *)
(* number of cells, are made into a tree and written as Markdown tables.   *)
(***************************************************************************)
MaxIndent == 2
MaxTreeRows == 4
Mark == "L"     \* the corner mark that indents a name

RECURSIVE LeadingMarks(_)
\* len(re.match(r'^(L+)', raw_name).group(1)), 0 without a match
LeadingMarks(raw_name) ==
    IF raw_name # <<>> /\ Head(raw_name) = Mark THEN 1 + LeadingMarks(Tail(raw_name)) ELSE 0

RECURSIVE ParamList(_, _)
\* lines 317-337: rows of fewer than 4 cells are skipped; src is the place of
\* the row in the table
ParamList(rows, k) ==
    IF k > Len(rows) THEN <<>>
    ELSE IF rows[k].cells < 4 THEN ParamList(rows, k + 1)
    ELSE <<[name |-> SubSeq(rows[k].name, LeadingMarks(rows[k].name) + 1, Len(rows[k].name)),
            type |-> rows[k].type,
            indent |-> LeadingMarks(rows[k].name),
            src |-> k]>> \o ParamList(rows, k + 1)

RECURSIVE PopKeepEqual(_, _, _)
\* the pop loop with > in place of >=
PopKeepEqual(stack, params, level) ==
    IF stack # <<>> /\ params[stack[Len(stack)]].indent > level
    THEN PopKeepEqual(SubSeq(stack, 1, Len(stack) - 1), params, level)
    ELSE stack

RECURSIVE PopStack(_, _, _)
\* while stack and stack[-1]["indent"] >= param["indent"]: stack.pop()
PopStack(stack, params, level) ==
    IF stack # <<>> /\ params[stack[Len(stack)]].indent >= level
    THEN PopStack(SubSeq(stack, 1, Len(stack) - 1), params, level)
    ELSE stack

\* lines 343-348 for param i: children[0] is the list root, children[j] the
\* list params[j]["children"]
TreeStep(t, params, i, stack) ==
    [stack |-> Append(stack, i),
     children |-> IF stack # <<>>
                  THEN [t.children EXCEPT ![stack[Len(stack)]] = Append(@, i)]
                  ELSE [t.children EXCEPT ![0] = Append(@, i)]]

RECURSIVE TreeLoop(_, _, _)
TreeLoop(t, params, i) ==
    IF i > Len(params) THEN t
    ELSE TreeLoop(TreeStep(t, params, i, PopStack(t.stack, params, params[i].indent)),
                  params, i + 1)

BuildTree(params) ==
    TreeLoop([stack |-> <<>>, children |-> [j \in 0..Len(params) |-> <<>>]], params, 1).children

\* line 359
ChildTitle(p) == IF p.type = "object" THEN <<p.name, ObjMark>> ELSE <<p.name, ArrMark>>

RECURSIVE GenMd(_, _, _, _)
RECURSIVE GenChildren(_, _, _)
\* lines 351-362: the table of params, then the tables of their children
GenMd(params, children, nodes, title) ==
    <<[title |-> title, rows |-> [i \in 1..Len(nodes) |-> params[nodes[i]].name]]>>
    \o GenChildren(params, children, nodes)

GenChildren(params, children, nodes) ==
    IF nodes = <<>> THEN <<>>
    ELSE (IF children[Head(nodes)] # <<>>
          THEN GenMd(params, children, children[Head(nodes)], ChildTitle(params[Head(nodes)]))
          ELSE <<>>)
         \o GenChildren(params, children, Tail(nodes))

\* the tree is kept beside the Markdown returned
parse_table_recursive(rows) ==
    [params |-> ParamList(rows, 1),
     children |-> BuildTree(ParamList(rows, 1)),
     md |-> GenMd(ParamList(rows, 1), BuildTree(ParamList(rows, 1)),
                  BuildTree(ParamList(rows, 1))[0], <<>>)]

Marks(k) == [i \in 1..k |-> Mark]

TableRowInputs ==
    {[name |-> Marks(k) \o <<"n">>, type |-> "array", cells |-> 4] : k \in 0..MaxIndent}
    \cup {[name |-> <<"o">>, type |-> "object", cells |-> 4],
          [name |-> <<Mark, "short">>, type |-> "int", cells |-> 3]}

CallParseTable ==
    /\ call = NoCall
    /\ \E rows \in SeqsUpTo(TableRowInputs, MaxTreeRows) :
          /\ call' = [NoCall EXCEPT !.fn = "parse_table_recursive", !.rows = rows]
          /\ ret' = parse_table_recursive(rows)
    /\ UNCHANGED <<file_vars, build_vars, main_vars, cli_vars>>

(***************************************************************************)
(* verify_api_docs.py.  A file is its name, as tokens, and what            *)
(* extract_info_from_html or extract_info_from_markdown returns for it:    *)
(* None, or the method, the path, the description and the section titles.  *)
(* The contents of a section present on both sides are taken as equal.     *)
(***************************************************************************)
MaxHtml == 2
MaxMd == 2

Info(m, p, d, secs) == [method |-> m, path |-> p, description |-> d, sections |-> secs]
File(name, info) == [name |-> name, info |-> info]

\* os.path.basename(f).lower()
LowerName(name) == Join([i \in 1..Len(name) |-> Lower(name[i])])

RECURSIVE StripSlashes(_)
\* path.strip('/')
StripSlashes(p) ==
    IF p # <<>> /\ Head(p) = "/" THEN StripSlashes(Tail(p))
    ELSE IF p # <<>> /\ p[Len(p)] = "/" THEN StripSlashes(SubSeq(p, 1, Len(p) - 1))
    ELSE p

\* re.sub(r':([^/]+)', r'_\1', path), then path.replace('/', '_')
Underscored(p) ==
    [i \in 1..Len(p) |->
        IF p[i] = "/" THEN "_"
        ELSE IF p[i] = ":" /\ i < Len(p) /\ p[i + 1] # "/" THEN "_"
        ELSE p[i]]

\* lines 279-287: the two file names tried first
PossiblePatterns(info) ==
    <<LowerName(<<Lower(info.method), "_">> \o Underscored(StripSlashes(info.path)) \o <<".md">>),
      LowerName(<<Lower(info.method)>> \o Underscored(StripSlashes(info.path)) \o <<".md">>)>>

RECURSIVE BracesToColon(_)
\* re.sub(r'{([^{}]+)}', r':\1', path)
BracesToColon(p) ==
    IF p = <<>> THEN <<>>
    ELSE IF Head(p) = "{" /\ Len(p) >= 3 /\ p[2] \notin {"{", "}"} /\ p[3] = "}"
         THEN <<":", p[2]>> \o BracesToColon(SubSeq(p, 4, Len(p)))
         ELSE <<Head(p)>> \o BracesToColon(Tail(p))

\* lines 298-305
SameApi(html_info, md_info) ==
    /\ ~IsNone(md_info)
    /\ Lower(md_info.method) = Lower(html_info.method)
    /\ BracesToColon(md_info.path) = html_info.path

\* a matcher that returns the first Markdown file, whatever it holds
find_first_md_file(html_file, md_files) ==
    IF md_files = <<>> THEN None ELSE md_files[1]

\* lines 262-307: the first file named after a pattern, patterns in order, else
\* the first file with the same method and path; None without one
find_matching_md_file(html_file, md_files) ==
    IF IsNone(html_file.info) THEN None
    ELSE LET pats == PossiblePatterns(html_file.info)
             N1 == {i \in 1..Len(md_files) : LowerName(md_files[i].name) = pats[1]}
             N2 == {i \in 1..Len(md_files) : LowerName(md_files[i].name) = pats[2]}
             S  == {i \in 1..Len(md_files) : SameApi(html_file.info, md_files[i].info)}
         IN IF N1 # {} THEN md_files[FirstOf(N1)]
            ELSE IF N2 # {} THEN md_files[FirstOf(N2)]
            ELSE IF S # {} THEN md_files[FirstOf(S)]
            ELSE None

\* lines 243-260 on the descriptions of the inputs: two different ones share
\* no character, so the ratio is 0; equal ones give 1
similar_text(a, b) ==
    IF a = "" /\ b = "" THEN TRUE
    ELSE IF a = "" \/ b = "" THEN FALSE
    ELSE a = b

\* lines 151-241, `match` only
compare_api_info(html_info, md_info) ==
    IF IsNone(html_info) \/ IsNone(md_info) THEN FALSE
    ELSE /\ Lower(html_info.method) = Lower(md_info.method)
         /\ html_info.path = BracesToColon(md_info.path)
         /\ similar_text(html_info.description, md_info.description)
         /\ html_info.sections \subseteq md_info.sections

\* lines 340-361: the entry of one HTML file
ResultEntry(html_file, md_file) ==
    IF IsNone(md_file)
    THEN [html_file |-> html_file.name, md_file |-> None, match |-> FALSE]
    ELSE [html_file |-> html_file.name, md_file |-> md_file,
          match |-> compare_api_info(html_file.info, md_file.info)]

\* lines 330-394, without the report file
verify_api_docs(html_files, all_md) ==
    LET md_files == SelectSeq(all_md, LAMBDA f : f.name # <<"info", ".md">>)
        results  == [i \in 1..Len(html_files) |->
                        ResultEntry(html_files[i],
                                    find_matching_md_file(html_files[i], md_files))]
        matched  == Cardinality({i \in 1..Len(results) : results[i].match})
    IN [total |-> Len(results), match |-> matched, mismatch |-> Len(results) - matched,
        results |-> results]

HtmlInfos ==
    {None, Info("GET", <<"/", "a">>, "d", {"reqHead"}),
     Info("POST", <<"/", "a", "/", ":", "id">>, "", {})}

MdInputs ==
    {File(<<"get", "_", "a", ".md">>, Info("GET", <<"/", "a">>, "d", {"reqHead"})),
     File(<<"GET", "_", "a", ".md">>, None),
     File(<<"x", ".md">>, Info("post", <<"/", "a", "/", "{", "id", "}">>, "", {})),
     File(<<"y", ".md">>, Info("get", <<"/", "a">>, "e", {})),
     File(<<"info", ".md">>, Info("GET", <<"/", "a">>, "d", {"reqHead"}))}

\* the files of a directory have different names
DistinctNames(fs) == \A i \in 1..Len(fs), j \in 1..Len(fs) : i # j => fs[i].name # fs[j].name

CallVerify ==
    /\ call = NoCall
    /\ \E infos \in SeqsUpTo(HtmlInfos, MaxHtml),
          mds \in {fs \in SeqsUpTo(MdInputs, MaxMd) : DistinctNames(fs)} :
          LET htmls == [i \in 1..Len(infos) |-> File(<<"h", ToString(i), ".html">>, infos[i])]
          IN /\ call' = [NoCall EXCEPT !.fn = "verify_api_docs",
                                       !.html_files = htmls, !.md_files = mds]
             /\ ret' = verify_api_docs(htmls, mds)
    /\ UNCHANGED <<file_vars, build_vars, main_vars, cli_vars>>

InitCalls == FileIdle /\ CallIdle /\ BuildIdle /\ MainIdle /\ CliIdle

NextCalls ==
    \/ CallSchemaType
    \/ CallOperationId
    \/ CallSchemaName
    \/ CallParseTable
    \/ CallVerify

SpecCalls == InitCalls /\ [][NextCalls]_vars

(***************************************************************************)
(* The assembler: parse_info_md, extract_schemas_from_apis and             *)
(* build_openapi_spec.  build_openapi_spec is one step; it rewrites the    *)
(* operations of api_list in place, so api_list is part of the state.      *)
(***************************************************************************)
MaxApis == 2
MaxCalls == 2

LabelVersion == "chandaobanben"     \* 禅道版本
LabelTime    == "paqushijian"       \* 爬取时间
LabelUrl     == "APIwendangURL"     \* API文档URL
LabelAccount == "zhanghao"          \* 账号

InfoField(label, value) == [k |-> "field", label |-> label, value |-> value]

\* the file save_info_md writes
InfoFile(version, time, url, account) ==
    [readable |-> TRUE,
     lines |-> <<[k |-> "title", label |-> "", value |-> ""],
                 [k |-> "blank", label |-> "", value |-> ""],
                 InfoField(LabelVersion, version), InfoField(LabelTime, time),
                 InfoField(LabelUrl, url), InfoField(LabelAccount, account)>>]

\* the text of a line without its surrounding blanks
InfoLineText(l) ==
    CASE l.k = "title" -> "# pachongxinxi"
      [] l.k = "blank" -> ""
      [] OTHER -> "- " \o l.label \o ":" \o (IF l.value = "" THEN "" ELSE " " \o l.value)

\* re.search(label + r":\s*(.+)", content).group(1).strip(), "" without a match:
\* \s* runs over line ends, so a blank value captures the next non-blank line
InfoCapture(lines, label) ==
    LET F == {i \in 1..Len(lines) : lines[i].k = "field" /\ lines[i].label = label}
    IN IF F = {} THEN ""
       ELSE LET i == FirstOf(F)
                N == {j \in (i + 1)..Len(lines) : InfoLineText(lines[j]) # ""}
            IN IF lines[i].value # "" THEN lines[i].value
               ELSE IF N = {} THEN ""
               ELSE InfoLineText(lines[FirstOf(N)])

parse_info_md(file) ==
    LET info == [version |-> "", time |-> "", url |-> "", account |-> ""]
    IN IF ~file.readable THEN info
       ELSE [version |-> InfoCapture(file.lines, LabelVersion),
             time    |-> InfoCapture(file.lines, LabelTime),
             url     |-> InfoCapture(file.lines, LabelUrl),
             account |-> InfoCapture(file.lines, LabelAccount)]

\* dict.get(key, default)
Get(d, key, default) == IF key \in DOMAIN d THEN d[key] ELSE default

\* lines 736-749 of extract_schemas_from_apis
ErrorSchema ==
    [type |-> "object",
     properties |-> [code |-> [type |-> "integer", description |-> "cuowudaima"],
                     message |-> [type |-> "string", description |-> "cuowuxinxi"]],
     required |-> <<"code", "message">>]

SchemaRef(name) == [ref |-> "#/components/schemas/" \o name]

\* lines 756-780: one pass of the loop, on the schemas so far and one operation
ExtractOne(schemas, api) ==
    IF IsNone(api) THEN [schemas |-> schemas, api |-> api]
    ELSE LET rname == generate_schema_name(api.path, api.method, TRUE)
             qname == generate_schema_name(api.path, api.method, FALSE)
             hasR  == ~IsNone(api.response_schema)
             hasQ  == ~IsNone(api.request_body)
             s1    == IF hasR THEN SetKey(schemas, rname, api.response_schema) ELSE schemas
             a1    == IF hasR THEN [api EXCEPT !.responses.r200.schema = SchemaRef(rname)]
                      ELSE api
             s2    == IF hasQ THEN SetKey(s1, qname, a1.request_body.schema) ELSE s1
             a2    == IF hasQ THEN [a1 EXCEPT !.request_body.schema = SchemaRef(qname)]
                      ELSE a1
         IN [schemas |-> s2, api |-> a2]

RECURSIVE ExtractLoop(_, _, _)
ExtractLoop(schemas, done, todo) ==
    IF todo = <<>> THEN [schemas |-> schemas, apis |-> done]
    ELSE LET r == ExtractOne(schemas, Head(todo))
         IN ExtractLoop(r.schemas, Append(done, r.api), Tail(todo))

\* the loop started without the Error schema
ExtractWithoutError(apis) == ExtractLoop(<<>>, <<>>, apis)

\* the schemas, and the operations as the call leaves them
extract_schemas_from_apis(apis) == ExtractLoop([Error |-> ErrorSchema], <<>>, apis)

\* the tag taken from the last segment of the path
last_segment(p) == IF PathParts(p) = <<>> THEN "" ELSE Join(PathParts(p)[Len(PathParts(p))])

first_segment(p) == IF PathParts(p) = <<>> THEN "" ELSE Join(PathParts(p)[1])

\* the order of sorted() on the first segments in use
TagRank(t) ==
    CASE t = "a" -> 1
      [] t = "b" -> 2
      [] t = "bugs" -> 3
      [] OTHER -> 4

RECURSIVE SortedTags(_)
SortedTags(S) ==
    IF S = {} THEN <<>>
    ELSE LET t == CHOOSE x \in S : \A y \in S : TagRank(x) <= TagRank(y)
         IN <<t>> \o SortedTags(S \ {t})

TagSet(apis) ==
    {first_segment(apis[i].path) : i \in {j \in 1..Len(apis) : ~IsNone(apis[j])}} \ {""}

\* the scheme as an API key sent in a header
TokenAuthHeader ==
    [type |-> "apiKey", in |-> "header", name |-> "Token", description |-> "chandaoAPIrenzhengToken"]

TokenAuth ==
    [type |-> "apiKey", in |-> "query", name |-> "Token", description |-> "chandaoAPIrenzhengToken"]

\* lines 884-901
Operation(api) ==
    LET operation ==
            [tags |-> IF first_segment(api.path) = "" THEN <<>> ELSE <<first_segment(api.path)>>,
             operationId |-> generate_operation_id(api.path, api.method),
             summary |-> api.description,
             parameters |-> api.parameters,
             responses |-> api.responses,
             security |-> <<[TokenAuth |-> <<>>]>>]
    IN IF IsNone(api.request_body) THEN operation
       ELSE SetKey(operation, "requestBody", api.request_body)

RECURSIVE PathsLoop(_, _)
PathsLoop(paths, apis) ==
    IF apis = <<>> THEN paths
    ELSE LET api == Head(apis)
         IN IF IsNone(api) THEN PathsLoop(paths, Tail(apis))
            ELSE LET key == Join(api.path)
                     at  == IF key \in DOMAIN paths THEN paths[key] ELSE <<>>
                 IN PathsLoop(SetKey(paths, key, SetKey(at, api.method, Operation(api))),
                              Tail(apis))

DefaultServer == "http://192.168.0.72/zentao"

\* the document build_openapi_spec returns for the operations as
\* extract_schemas_from_apis left them
Document(info_data, schemas, apis) ==
    [openapi |-> "3.0.0",
     info |-> [title |-> "Zentao API",
               version |-> Get(info_data, "version", "unknown"),
               description |-> <<Get(info_data, "version", ""), Get(info_data, "time", ""),
                                 Get(info_data, "url", ""), Get(info_data, "account", "")>>],
     servers |-> <<[url |-> Get(info_data, "url", DefaultServer)]>>,
     paths |-> PathsLoop(<<>>, apis),
     components |-> [schemas |-> schemas, securitySchemes |-> [TokenAuth |-> TokenAuth]],
     security |-> <<[TokenAuth |-> <<>>]>>,
     tags |-> LET ts == SortedTags(TagSet(apis))
              IN [i \in 1..Len(ts) |-> [name |-> ts[i], description |-> ts[i] \o " xiangguanjiekou"]]]

build_openapi_spec ==
    /\ calls < MaxCalls
    /\ LET info_data == parse_info_md(info_md)
           ex        == extract_schemas_from_apis(api_list)
       IN /\ api_list' = ex.apis
          /\ openapi' = Document(info_data, ex.schemas, ex.apis)
    /\ calls' = calls + 1
    /\ UNCHANGED <<info_md, file_vars, call_vars, main_vars, cli_vars>>

\* operations as parse_markdown_file returns them
CodeSchema == [type |-> "object", properties |-> [code |-> [type |-> "integer"]]]
NameSchema == [type |-> "object", properties |-> [name |-> [type |-> "string"]]]
TitleSchema ==
    [type |-> "object", properties |-> [title |-> [type |-> "string"]], required |-> <<"title">>]

Api(p, m, response, body) ==
    [path |-> p, method |-> m, description |-> <<"d">>,
     parameters |-> WithToken(PathParamList(FindBraces(p))),
     request_body |-> body,
     responses |-> Responses(response),
     response_schema |-> response]

ApiPaths ==
    {<<"/", "a", "/", "{", "x", "}">>, <<"/", "a", "/", "{", "id", "}">>, <<"/", "b">>}

ApiInputs ==
    {Api(p, m, sh[1], sh[2]) :
        p \in ApiPaths, m \in {"get", "post"},
        sh \in {<<None, None>>, <<CodeSchema, None>>, <<NameSchema, Body(TitleSchema)>>}}
    \cup {Api(<<"/">>, "get", None, None)}
    \cup {None}

InfoInputs ==
    {NoFile} \cup {InfoFile(v, "t", u, "u") : v \in {"", "21.6"}, u \in {"", "http://h/zentao"}}

InitBuild ==
    /\ FileIdle
    /\ CallIdle
    /\ api_list \in SeqsUpTo(ApiInputs, MaxApis)
    /\ info_md \in InfoInputs
    /\ openapi = None
    /\ calls = 0
    /\ MainIdle
    /\ CliIdle

NextBuild == build_openapi_spec

SpecBuild == InitBuild /\ [][NextBuild]_vars

(***************************************************************************)
(* md2openapi.main: every Markdown file is parsed in turn, the operations  *)
(* returned are collected, and the document is assembled once.  An         *)
(* exception of parse_markdown_file is not caught: main ends there.        *)
(***************************************************************************)
\* lines 916-920: the loop body after parse_markdown_file returned
NextFile ==
    /\ files.i >= 1
    /\ pc = "done"
    /\ ~IsRaised(result)
    /\ api_list' = IF IsNone(result) THEN api_list ELSE Append(api_list, result)
    /\ IF files.i < Len(files.docs)
       THEN /\ files' = [files EXCEPT !.i = @ + 1]
            /\ content' = files.docs[files.i + 1]
            /\ pc' = "start"
       ELSE /\ pc' = "parsed"
            /\ UNCHANGED <<files, content>>
    /\ method' = ""
    /\ path' = <<>>
    /\ description' = <<>>
    /\ req_params' = <<>>
    /\ request_body' = None
    /\ response_schema' = None
    /\ result' = None
    /\ used' = <<>>
    /\ UNCHANGED <<info_md, openapi, calls, call_vars, cli_vars>>

\* line 924
MainBuild ==
    /\ pc = "parsed"
    /\ calls = 0
    /\ build_openapi_spec

\* the files of api_doc: pairs of documents that differ in one block
BadExamples == {JInvalid, JList}
NameExample == Example(RespExample, JObj(<<Item("name", "str", "")>>))
CodeSection == Sec(RespParams, <<<<"code", "int", Shi, "">>>>)

ExamplePairs ==
    {<<Title(m, <<"/", "a">>) \o DescText \o b \o e[1] \o r \o x,
       Title(m, <<"/", "a">>) \o DescText \o b \o e[2] \o r \o x>> :
        m \in {"GET", "POST"},
        b \in {<<>>, Sec(ReqBody, <<TitleRow>>)},
        e \in {<<<<>>, Example(ReqExample, v)>> : v \in BadExamples},
        r \in {<<>>, CodeSection},
        x \in {<<>>, NameExample}}
    \cup
    {<<Title(m, <<"/", "a">>) \o DescText \o b \o r,
       Title(m, <<"/", "a">>) \o DescText \o b \o r \o Example(RespExample, v)>> :
        m \in {"GET", "POST"},
        b \in {<<>>, Sec(ReqBody, <<TitleRow>>)},
        r \in {<<>>, CodeSection},
        v \in BadExamples}

\* pairs of documents with one 请求体 table that differ in the response section
\* or in the sub-tables of the request body
ListRow == <<"list", "array", Fou, "">>
ListBody == Title("POST", <<"/", "a">>) \o DescText \o Sec(ReqBody, <<ListRow>>)
BodySubTables == {<<>>, SubTable(<<"list", ArrMark>>, <<<<"id", "int", Shi, "">>>>)}
ResponseParts ==
    {<<>>, CodeSection, Sec(RespParams, <<ListRow>>),
     Sec(RespParams, <<ListRow>>) \o SubTable(<<"list", ArrMark>>, <<<<"rname", "string", Shi, "">>>>)}

SchemaPairs ==
    {<<ListBody \o st[1] \o rs[1], ListBody \o st[2] \o rs[2]>> :
        st \in {x \in BodySubTables \X BodySubTables : x[1] # x[2]},
        rs \in {x \in ResponseParts \X ResponseParts : x[1] = x[2]}}
    \cup
    {<<ListBody \o st[1] \o rs[1], ListBody \o st[2] \o rs[2]>> :
        st \in {x \in BodySubTables \X BodySubTables : x[1] = x[2]},
        rs \in {x \in ResponseParts \X ResponseParts : x[1] # x[2]}}

FileLists == {<<>>} \cup ExamplePairs \cup SchemaPairs

InitMain ==
    /\ files \in {[docs |-> ds, i |-> IF ds = <<>> THEN 0 ELSE 1] : ds \in FileLists}
    /\ content = IF files.docs = <<>> THEN <<>> ELSE files.docs[1]
    /\ pc = IF files.docs = <<>> THEN "parsed" ELSE "start"
    /\ method = ""
    /\ path = <<>>
    /\ description = <<>>
    /\ req_params = <<>>
    /\ request_body = None
    /\ response_schema = None
    /\ result = None
    /\ used = <<>>
    /\ api_list = <<>>
    /\ info_md \in {NoFile, InfoFile("21.6", "t", "http://h/zentao", "u")}
    /\ openapi = None
    /\ calls = 0
    /\ CallIdle
    /\ CliIdle

NextMain ==
    \/ MatchTitle
    \/ PathParams
    \/ HeaderTable
    \/ RequestBodyTable
    \/ RequestParams
    \/ RequestExample
    \/ ResponseSchema
    \/ TokenAndReturn
    \/ NextFile
    \/ MainBuild

SpecMain == InitMain /\ [][NextMain]_vars

(***************************************************************************)
(* cli.main: the crawler is created, the output directory is cleaned, and  *)
(* the browser is set up, logged in and run inside try / except / finally. *)
(* cli_pc is the place in main; driver is crawler.driver; quits, closes    *)
(* and crawls count the calls of driver.quit(), crawler.close() and        *)
(* crawler.run_crawl(); outdir is the set of files under api_doc; events   *)
(* is a history variable, the outcomes of the calls in order.              *)
(***************************************************************************)
MaxCloses == 2

KeptNames == {"README.md", "verification_report.md"}
DiskNames == KeptNames \cup {"a.md", "info.md", "zentao_api_docs.yaml", "html/a.html"}

ApiDocUrl == "http://192.168.0.72/zentao/dev-api-restapi.html"

\* cli.py lines 22-49: the Markdown files other than the kept ones, the html
\* directory and the YAML files are removed
Cleanup ==
    /\ cli_pc = "created"
    /\ outdir' = outdir \cap KeptNames
    /\ info_md' = NoFile
    /\ cli_pc' = "setup"
    /\ UNCHANGED <<driver, quits, closes, crawls, events>>
    /\ UNCHANGED <<api_list, openapi, calls, file_vars, call_vars, main_vars>>

\* line 53: setup_driver sets crawler.driver, or logs and raises again
\* (base_crawler.py lines 99-125); the except clause of main then logs
SetupDriver ==
    /\ cli_pc = "setup"
    /\ \E ok \in BOOLEAN :
          IF ok
          THEN /\ driver' = "chrome"
               /\ events' = Append(events, "setup_ok")
               /\ cli_pc' = "login"
          ELSE /\ events' = Append(events, "setup_raised")
               /\ cli_pc' = "finally"
               /\ UNCHANGED driver
    /\ UNCHANGED <<quits, closes, crawls, outdir>>
    /\ UNCHANGED <<build_vars, file_vars, call_vars, main_vars>>

\* lines 56-58: login returns True or False, it raises nothing
\* (base_crawler.py lines 137-170); on False main returns
Login ==
    /\ cli_pc = "login"
    /\ \E ok \in BOOLEAN :
          /\ events' = Append(events, IF ok THEN "login_true" ELSE "login_false")
          /\ cli_pc' = IF ok THEN "crawl" ELSE "finally"
    /\ UNCHANGED <<driver, quits, closes, crawls, outdir>>
    /\ UNCHANGED <<build_vars, file_vars, call_vars, main_vars>>

\* what crawl() does: it raises, or returns "" having written nothing, or
\* returns the version having written the documents
CrawlOutcomes == {"raise", "", "21.6"}

\* line 61 and base_crawler.py lines 210-211: crawl(), then save_info_md
\* with what it returned
RunCrawl ==
    /\ cli_pc = "crawl"
    /\ crawls' = crawls + 1
    /\ \E out \in CrawlOutcomes :
          IF out = "raise"
          THEN /\ events' = Append(events, "crawl_raised")
               /\ UNCHANGED <<outdir, info_md>>
          ELSE /\ events' = Append(events, "crawl_done")
               /\ info_md' = InfoFile(out, "t", ApiDocUrl, "the_account")
               /\ outdir' = outdir \cup {"info.md"}
                               \cup (IF out = "" THEN {} ELSE {"a.md", "html/a.html"})
    /\ cli_pc' = "finally"
    /\ UNCHANGED <<driver, quits, closes>>
    /\ UNCHANGED <<api_list, openapi, calls, file_vars, call_vars, main_vars>>

\* a close() that quits the driver and keeps the reference to it
close_keeps_driver ==
    /\ closes' = closes + 1
    /\ IF driver # "none"
       THEN quits' = quits + 1 /\ UNCHANGED driver
       ELSE UNCHANGED <<quits, driver>>

\* base_crawler.py lines 172-179
close ==
    /\ closes' = closes + 1
    /\ IF driver # "none"
       THEN quits' = quits + 1 /\ driver' = "none"
       ELSE UNCHANGED <<quits, driver>>

\* lines 66-68: the finally clause
Finally ==
    /\ cli_pc = "finally"
    /\ close
    /\ cli_pc' = "exit"
    /\ UNCHANGED <<crawls, outdir, events>>
    /\ UNCHANGED <<build_vars, file_vars, call_vars, main_vars>>

\* close() called on the crawler once more after main has ended
CloseAgain ==
    /\ cli_pc = "exit"
    /\ closes < MaxCloses
    /\ close
    /\ UNCHANGED <<cli_pc, crawls, outdir, events>>
    /\ UNCHANGED <<build_vars, file_vars, call_vars, main_vars>>

\* line 20, and what the output directory may hold from an earlier run
InitCli ==
    /\ FileIdle
    /\ CallIdle
    /\ MainIdle
    /\ api_list = <<>> /\ openapi = None /\ calls = 0
    /\ outdir \in SUBSET DiskNames
    /\ info_md = IF "info.md" \in outdir
                 THEN InfoFile("21.5", "t", ApiDocUrl, "the_account") ELSE NoFile
    /\ cli_pc = "created"
    /\ driver = "none"
    /\ quits = 0 /\ closes = 0 /\ crawls = 0
    /\ events = <<>>

MainStep == Cleanup \/ SetupDriver \/ Login \/ RunCrawl \/ Finally

NextCli ==
    \/ Cleanup
    \/ SetupDriver
    \/ Login
    \/ RunCrawl
    \/ Finally
    \/ CloseAgain

SpecCli == InitCli /\ [][NextCli]_vars

\* main is one sequential program: a step of it that can be taken is taken
SpecCliFair == SpecCli /\ WF_vars(MainStep)

(***************************************************************************)
(* Properties.  What they read of a document they read from its layout     *)
(* (a heading, a blank line, the header row, the separator row, the data   *)
(* rows), not through the operators that model the converter.              *)
(***************************************************************************)
IsOp(r) == "path" \in DOMAIN r
Done == pc = "done"

HeadingLines(doc, n, w) == {i \in 1..Len(doc) : doc[i].k = "head" /\ doc[i].n = n /\ doc[i].w = w}
HasHeading(doc, w) == HeadingLines(doc, 4, w) # {}

RECURSIVE RowsFrom(_, _)
RowsFrom(doc, j) ==
    IF j <= Len(doc) /\ doc[j].k = "row" THEN <<doc[j].cells>> \o RowsFrom(doc, j + 1) ELSE <<>>

\* the data rows of the table under the first heading w
DataRowsOf(doc, w) == RowsFrom(doc, FirstOf(HeadingLines(doc, 4, w)) + 4)

IsTitleLine(l) == l.k = "head" /\ l.n = 3 /\ l.cells # <<>> /\ l.cells[1] = "/"
HasTitleLine(doc) == \E i \in 1..Len(doc) : IsTitleLine(doc[i])
TitleLineOf(doc) == doc[FirstOf({i \in 1..Len(doc) : IsTitleLine(doc[i])})]

ParamsIn(params, where) == SelectSeq(params, LAMBDA q : q.in = where)
NamesOf(params) == [i \in 1..Len(params) |-> params[i].name]
TokenSpellings == {"token", "Token", "TOKEN"}
HeaderSpellings == TokenSpellings \cup {"authorization", "cookie", "Cookie", "content-type"}
HeaderTokens(params) ==
    {i \in 1..Len(params) : params[i].in = "header" /\ params[i].name \in TokenSpellings}

\* C1: a document with no title line `### METHOD /path` gives None, whatever
\* headings, tables and code blocks it holds.
C1_NoTitleGivesNone == (Done /\ ~HasTitleLine(content)) => IsNone(result)

RECURSIVE SplitSlash(_)
\* the segments of a path, each with its leading slash
SplitSlash(p) ==
    IF p = <<>> THEN <<>>
    ELSE LET S == {j \in 2..Len(p) : p[j] = "/"}
             e == IF S = {} THEN Len(p) ELSE FirstOf(S) - 1
         IN <<SubSeq(p, 1, e)>> \o SplitSlash(SubSeq(p, e + 1, Len(p)))

\* a segment /:name becomes /{name}, any other segment stays
ClaimSegment(seg) ==
    IF Len(seg) >= 3 /\ seg[2] = ":"
    THEN <<"/", "{">> \o SubSeq(seg, 3, Len(seg)) \o <<"}">>
    ELSE seg

RECURSIVE StripColons(_)
StripColons(p) ==
    IF p # <<>> /\ p[Len(p)] = ":" THEN StripColons(SubSeq(p, 1, Len(p) - 1)) ELSE p

ClaimPath(p) ==
    LET segs == SplitSlash(StripColons(p))
    IN Flatten([i \in 1..Len(segs) |-> ClaimSegment(segs[i])])

ClaimLower == [GET |-> "get", POST |-> "post", PUT |-> "put", PATCH |-> "patch",
               DELETE |-> "delete"]

IsPathParam(q, name) ==
    q.name = name /\ q.in = "path" /\ q.required /\ q.schema.type = "string"

\* the names between braces in a normalized path
Placeholders(p) == {FindBraces(p)[i] : i \in 1..Len(FindBraces(p))}

\* C2: the path of the title line has each :name segment rewritten to {name},
\* every other segment unchanged and a trailing stray colon removed; the method
\* is lower-cased; each placeholder of the path has a required string path
\* parameter.
C2_PathNormalized ==
    (Done /\ HasTitleLine(content) /\ IsOp(result)) =>
        LET t == TitleLineOf(content)
        IN /\ result.path = ClaimPath(t.cells)
           /\ result.method = ClaimLower[t.w]
           /\ \A name \in Placeholders(result.path) :
                 \E i \in 1..Len(result.parameters) : IsPathParam(result.parameters[i], name)

\* C3: the request-body strategies (a), (b), (c), (d) are tried in order and the
\* first that consumes its section wins: no later strategy contributes.
C3_FirstStrategyWins == Len(used) <= 1

\* the place of each row of the request-parameters table, as the claim gives it
ClaimParamsTitle(doc) == IF HasHeading(doc, ReqParams) THEN ReqParams ELSE ReqFields
ClaimHasParamsTable(doc) ==
    /\ ~HasHeading(doc, ReqBody)
    /\ HasHeading(doc, ReqParams) \/ HasHeading(doc, ReqFields)
WellFormedRows(doc, w) ==
    IF HasHeading(doc, w) THEN SelectSeq(DataRowsOf(doc, w), LAMBDA c : Len(c) = 4) ELSE <<>>
RowNames(rows) == [i \in 1..Len(rows) |-> rows[i][1]]
RowRequired(rows) == [i \in 1..Len(rows) |-> rows[i][3] = Shi]
ParamRequired(params) == [i \in 1..Len(params) |-> params[i].required]

\* C4: with a request-parameters table and no 请求体 table, every well-formed data
\* row lands in one place: for GET a query parameter and no request body from the
\* table; for POST, PUT, PATCH a header parameter when its name is token,
\* authorization, cookie or content-type in any case (and then no property and
\* not in `required`), else a request-body property, in `required` iff its
\* required cell is 是.
C4_RowPlacement ==
    [][(pc = "req_params" /\ ClaimHasParamsTable(content)) =>
        LET rows  == WellFormedRows(content, ClaimParamsTitle(content))
            k     == Len(req_params) + Len(WellFormedRows(content, ReqHeadParams))
            added == SubSeq(req_params', k + 1, Len(req_params'))
            hdr   == SelectSeq(rows, LAMBDA c : c[1] \in HeaderSpellings)
            oth   == SelectSeq(rows, LAMBDA c : c[1] \notin HeaderSpellings)
            req   == RowNames(SelectSeq(oth, LAMBDA c : c[3] = Shi))
        IN IF method = "get"
           THEN /\ NamesOf(added) = RowNames(rows)
                /\ ParamRequired(added) = RowRequired(rows)
                /\ \A i \in 1..Len(added) : added[i].in = "query"
                /\ IsNone(request_body')
           ELSE IF method \in {"post", "put", "patch"}
           THEN /\ NamesOf(added) = RowNames(hdr)
                /\ ParamRequired(added) = RowRequired(hdr)
                /\ \A i \in 1..Len(added) : added[i].in = "header"
                /\ ~IsNone(request_body')
                /\ DOMAIN request_body'.schema.properties = {oth[i][1] : i \in 1..Len(oth)}
                /\ IF req = <<>> THEN "required" \notin DOMAIN request_body'.schema
                   ELSE request_body'.schema.required = req
           ELSE added = <<>> /\ IsNone(request_body')]_vars

C4_Witness ==
    /\ pc = "req_example"
    /\ method = "post"
    /\ used = <<"b">>
    /\ ~IsNone(request_body)
    /\ DOMAIN request_body.schema.properties = {"name"}
    /\ request_body.schema.required = <<"name">>
    /\ \E i \in 1..Len(req_params) : req_params[i].name = "Cookie" /\ req_params[i].in = "header"

RECURSIVE RequiredOk(_)
RequiredOk(s) ==
    /\ "required" \in DOMAIN s =>
          /\ s.required # <<>>
          /\ "properties" \in DOMAIN s
          /\ \A i \in 1..Len(s.required) : s.required[i] \in DOMAIN s.properties
    /\ "properties" \in DOMAIN s => \A k \in DOMAIN s.properties : RequiredOk(s.properties[k])
    /\ "items" \in DOMAIN s => RequiredOk(s.items)

\* C5: in every object schema the converter produces (request body, response,
\* nested sub-table schemas, Error) `required` is absent or a non-empty list of
\* keys of that schema's `properties`, also after sub-table composition.
C5_RequiredWellFormed ==
    /\ RequiredOk(ErrorSchema)
    /\ ~IsNone(request_body) => RequiredOk(request_body.schema)
    /\ ~IsNone(response_schema) => RequiredOk(response_schema)
    /\ IsOp(result) =>
          /\ RequiredOk(result.responses.r200.schema)
          /\ ~IsNone(result.request_body) => RequiredOk(result.request_body.schema)

C5_Witness ==
    /\ Done /\ IsOp(result) /\ ~IsNone(result.request_body)
    /\ LET s == result.request_body.schema
       IN /\ "required" \in DOMAIN s
          /\ s.required = <<"obj">>
          /\ "obj" \in DOMAIN s.properties
          /\ "properties" \in DOMAIN s.properties["obj"]
          /\ "required" \notin DOMAIN s.properties["obj"]

\* the type-token table, as the claim reads it
ClaimType(tok) ==
    CASE tok \in {"string", "str", "String"} -> "string"
      [] tok \in {"int", "INT", "integer"} -> "integer"
      [] tok \in {"float", "double", "number"} -> "number"
      [] tok \in {"bool", "boolean"} -> "boolean"
      [] tok = "array" -> "array"
      [] tok \in {"object", "user"} -> "object"
      [] OTHER -> "string"

\* a table under heading w in a document with a title line: at least one data
\* row, four cells in each
IsFourCellTable(doc, w) ==
    /\ HasTitleLine(doc)
    /\ HasHeading(doc, w)
    /\ DataRowsOf(doc, w) # <<>>
    /\ \A i \in 1..Len(DataRowsOf(doc, w)) : Len(DataRowsOf(doc, w)[i]) = 4

RequiredIs(schema, names) ==
    IF names = <<>> THEN "required" \notin DOMAIN schema ELSE schema.required = names

ClaimElementSchema(e) ==
    CASE e = "str" -> [type |-> "string"]
      [] e = "int" -> [type |-> "integer"]
      [] e = "float" -> [type |-> "number"]
      [] e = "bool" -> [type |-> "boolean"]
      [] OTHER -> [type |-> "object"]

ClaimValueSchema(item) ==
    CASE item.t = "list" -> [type |-> "array", items |-> ClaimElementSchema(item.e)]
      [] OTHER -> ClaimElementSchema(item.t)

\* the JSON text of the fenced block under the first heading w
ExampleOf(doc, w) == doc[FirstOf(HeadingLines(doc, 4, w)) + 3].v

\* values the claim names: no null, no empty list
ClaimCovers(v) ==
    /\ v.valid /\ v.kind = "dict"
    /\ \A i \in 1..Len(v.obj) :
          /\ v.obj[i].t \in {"str", "int", "float", "bool", "dict", "list"}
          /\ v.obj[i].t = "list" => v.obj[i].e \in {"str", "int", "float", "bool", "dict"}

\* C7: a request body inferred from a 请求示例 JSON object, with no table in the
\* document, has one property per key of the example, typed by the JSON type of
\* the value (string, integer, number, boolean, object, array with items of the
\* element type), and carries the parsed JSON as its example.
C7_ExampleTypes ==
    (/\ Done /\ IsOp(result) /\ HasTitleLine(content)
     /\ HasHeading(content, ReqExample)
     /\ \A w \in {ReqBody, ReqParams, ReqFields} : ~HasHeading(content, w)
     /\ ClaimCovers(ExampleOf(content, ReqExample))
     /\ ~IsNone(result.request_body)) =>
        LET v == ExampleOf(content, ReqExample)
            b == result.request_body
        IN /\ b.example = v
           /\ b.schema.type = "object"
           /\ DOMAIN b.schema.properties = {v.obj[i].key : i \in 1..Len(v.obj)}
           /\ \A i \in 1..Len(v.obj) :
                 b.schema.properties[v.obj[i].key] = ClaimValueSchema(v.obj[i])

IsClaimToken(q) ==
    q.name = "Token" /\ q.in = "header" /\ ~q.required /\ q.schema.type = "string"

\* C8: the last step of extraction appends exactly one optional string header
\* parameter Token, as the last parameter, when the list holds no in=header
\* parameter named token in any case; otherwise it leaves the list as it is.
C8_TokenAppended ==
    [][pc = "token" =>
        /\ IF HeaderTokens(req_params) = {}
           THEN /\ Len(req_params') = Len(req_params) + 1
                /\ SubSeq(req_params', 1, Len(req_params)) = req_params
                /\ IsClaimToken(req_params'[Len(req_params')])
           ELSE req_params' = req_params
        /\ IsOp(result') /\ result'.parameters = req_params']_vars

C8_Witness ==
    /\ Done /\ IsOp(result)
    /\ \E i \in 1..Len(result.parameters) :
          result.parameters[i].name = "Token" /\ result.parameters[i].in = "query"
    /\ Cardinality(HeaderTokens(result.parameters)) = 1
    /\ IsClaimToken(result.parameters[Len(result.parameters)])

\* C9: every returned operation has at most one header parameter named token
\* in any case, whatever token rows the header and parameter tables list.
C9_AtMostOneToken ==
    (Done /\ IsOp(result)) => Cardinality(HeaderTokens(result.parameters)) <= 1

\* C10: every returned operation has exactly one in=path parameter per distinct
\* {name} variable of its path, also when a name occurs in several segments,
\* and no in=path parameter of another name.
C10_OnePathParamPerVariable ==
    (Done /\ IsOp(result) /\ HasTitleLine(content)) =>
        LET ps == result.parameters
        IN /\ \A name \in Placeholders(result.path) :
                 Cardinality({i \in 1..Len(ps) : ps[i].in = "path" /\ ps[i].name = name}) = 1
           /\ \A i \in 1..Len(ps) :
                 ps[i].in = "path" => ps[i].name \in Placeholders(result.path)

\* the sub-tables (bold title lines) between the heading w and the next heading
SubTablesOf(doc, w) ==
    LET h == FirstOf(HeadingLines(doc, 4, w))
        N == {j \in (h + 1)..Len(doc) : doc[j].k = "head"}
        e == IF N = {} THEN Len(doc) ELSE FirstOf(N)
    IN {i \in h..e : doc[i].k = "bold"}

\* the names of the rows of the table whose title or heading is line i
NamesAt(doc, i) == {RowsFrom(doc, i + 4)[r][1] : r \in 1..Len(RowsFrom(doc, i + 4))}

\* the schema p of a field carries the sub-table: as its properties or as its items
Carries(p, names) ==
    \/ "properties" \in DOMAIN p /\ names \subseteq DOMAIN p.properties
    \/ /\ "items" \in DOMAIN p
       /\ "properties" \in DOMAIN p.items
       /\ names \subseteq DOMAIN p.items.properties

RECURSIVE Composed(_, _, _)
\* somewhere in schema s a property f carries the sub-table
Composed(s, f, names) ==
    \/ /\ "properties" \in DOMAIN s
       /\ \/ f \in DOMAIN s.properties /\ Carries(s.properties[f], names)
          \/ \E k \in DOMAIN s.properties : Composed(s.properties[k], f, names)
    \/ "items" \in DOMAIN s /\ Composed(s.items, f, names)

\* C11: a sub-table of the 请求体 section whose parent field is defined in another
\* sub-table (depth 2 or more) is composed into that field inside the nested
\* schema, so it appears somewhere in the request schema.
C11_NestedComposed ==
    (/\ Done /\ IsOp(result) /\ HasTitleLine(content)
     /\ HasHeading(content, ReqBody) /\ ~IsNone(result.request_body)) =>
        LET T == SubTablesOf(content, ReqBody)
            h == FirstOf(HeadingLines(content, 4, ReqBody))
        IN \A i \in T :
              LET f == content[i].cells[1]
              IN (/\ f \notin NamesAt(content, h)
                  /\ \E j \in T \ {i} : f \in NamesAt(content, j)) =>
                    Composed(result.request_body.schema, f, NamesAt(content, i))

\* C12: in a 请求体 table a data row whose number of cells differs from the number
\* of header cells is skipped: the properties of the schema are the names of the
\* rows that have as many cells as the header, and no others.
C12_MismatchedRowsSkipped ==
    (/\ Done /\ IsOp(result) /\ HasTitleLine(content)
     /\ HasHeading(content, ReqBody) /\ ~IsNone(result.request_body)) =>
        LET rows == DataRowsOf(content, ReqBody)
            good == SelectSeq(rows, LAMBDA c : Len(c) = Len(StdHeader))
        IN DOMAIN result.request_body.schema.properties = {good[i][1] : i \in 1..Len(good)}

\* the parenthesized groups of a description that hold no parenthesis inside
ClaimGroups(t) ==
    {SubSeq(t, ij[1] + 1, ij[2] - 1) :
        ij \in {x \in (1..Len(t)) \X (1..Len(t)) :
                   /\ x[1] < x[2]
                   /\ t[x[1]] = "(" /\ t[x[2]] = ")"
                   /\ \A k \in (x[1] + 1)..(x[2] - 1) : t[k] \notin {"(", ")"}}}

\* the entries `value free-text` of a group: first token and the text after it
ClaimWords(e) == SelectSeq(e, LAMBDA w : w # " ")
ClaimValue(e) == IF ClaimWords(e) = <<>> THEN "" ELSE ClaimWords(e)[1]
ClaimText(e) ==
    IF Len(ClaimWords(e)) < 2 THEN "" ELSE Join(JoinWith([i \in 1..(Len(ClaimWords(e)) - 1) |-> <<ClaimWords(e)[i + 1]>>], " "))

ClaimEnumGroups(t) == {g \in ClaimGroups(t) : Len(SplitOn(g, "|")) >= 2}

\* every entry of the group starts with its value
ClaimWellFormed(g) ==
    \A i \in 1..Len(SplitOn(g, "|")) : SplitOn(g, "|")[i] # <<>> /\ SplitOn(g, "|")[i][1] # " "

\* C13: determine_schema_type takes an enumeration from a description that holds
\* a parenthesized group of 2 or more pipe-separated `value free-text` entries:
\* enum lists the first tokens of the entries in order and the parallel list of
\* descriptions their remaining text, present when one of them is not empty;
\* with no such group there is no enum.  Stated for the fields not named desc
\* and the descriptions whose groups of 2 or more entries are all of that form.
C13_EnumExtracted ==
    (/\ call.fn = "determine_schema_type"
     /\ call.name # "desc"
     /\ \A g \in ClaimEnumGroups(call.desc) : ClaimWellFormed(g)) =>
        LET G == ClaimEnumGroups(call.desc)
        IN IF G = {} THEN "enum" \notin DOMAIN ret
           ELSE /\ "enum" \in DOMAIN ret
                /\ \E g \in G :
                      LET es == SplitOn(g, "|")
                          texts == [i \in 1..Len(es) |-> ClaimText(es[i])]
                      IN /\ ret.enum = [i \in 1..Len(es) |-> ClaimValue(es[i])]
                         /\ IF \E i \in 1..Len(es) : texts[i] # ""
                            THEN /\ "x_enum_descriptions" \in DOMAIN ret
                                 /\ ret.x_enum_descriptions = texts
                            ELSE "x_enum_descriptions" \notin DOMAIN ret

\* a path segment with its leading slash: Id for {param}, else the literal
\* with its first letter in upper case
ClaimSegId(seg) ==
    IF Len(seg) >= 4 /\ seg[2] = "{" /\ seg[Len(seg)] = "}" THEN "Id"
    ELSE Capitalize(seg[2]) \o Join(SubSeq(seg, 3, Len(seg)))

RECURSIVE ClaimSegIds(_)
ClaimSegIds(segs) ==
    IF segs = <<>> THEN "" ELSE ClaimSegId(Head(segs)) \o ClaimSegIds(Tail(segs))

ClaimOperationId(p, m) == Lower(m) \o ClaimSegIds(SplitSlash(p))

BugsId == <<"/", "bugs", "/", "{", "id", "}">>
ExecutionsIdBuilds == <<"/", "executions", "/", "{", "id", "}", "/", "builds">>

\* C14: generate_operation_id(path, method) is the lower-cased method followed,
\* in path order, by Id for every {param} segment and by the segment with its
\* first letter upper-cased for every literal segment; generate_schema_name is
\* that identifier followed by Response (is_response) or Request.  (/bugs/{id},
\* DELETE) gives deleteBugsId and deleteBugsIdResponse, (/executions/{id}/builds,
\* GET) gives getExecutionsIdBuilds.
C14_IdentifierShape ==
    /\ call.fn = "generate_operation_id" => ret = ClaimOperationId(call.path, call.method)
    /\ call.fn = "generate_schema_name" =>
          ret = ClaimOperationId(call.path, call.method)
                    \o (IF call.is_response THEN "Response" ELSE "Request")
    /\ (call.fn = "generate_operation_id" /\ call.path = BugsId /\ call.method = "DELETE")
          => ret = "deleteBugsId"
    /\ (call.fn = "generate_schema_name" /\ call.path = BugsId /\ call.method = "DELETE"
            /\ call.is_response)
          => ret = "deleteBugsIdResponse"
    /\ (call.fn = "generate_operation_id" /\ call.path = ExecutionsIdBuilds /\ call.method = "GET")
          => ret = "getExecutionsIdBuilds"

C14_Witness ==
    /\ call.fn = "generate_schema_name"
    /\ call.path = BugsId
    /\ call.method = "DELETE"
    /\ call.is_response
    /\ ret = "deleteBugsIdResponse"

Built == calls >= 1

\* the operations of the document, as (path, method) pairs
DocOps ==
    {pm \in (DOMAIN openapi.paths) \X {"get", "post"} : pm[2] \in DOMAIN openapi.paths[pm[1]]}
DocOp(pm) == openapi.paths[pm[1]][pm[2]]

IsRef(s) == "ref" \in DOMAIN s

\* the components.schemas entries an operation of the document points at
RefsOf(op) ==
    (IF IsRef(op.responses.r200.schema) THEN {op.responses.r200.schema.ref} ELSE {})
    \cup (IF "requestBody" \in DOMAIN op /\ IsRef(op.requestBody.schema)
          THEN {op.requestBody.schema.ref} ELSE {})

\* C15: two distinct (path, method) pairs get distinct operationIds and distinct
\* schema names: in an assembled document the operationIds are pairwise distinct
\* and no two operations share a components.schemas entry.
C15_UniqueIdentifiers ==
    Built =>
        \A p \in DocOps, q \in DocOps :
            p # q => /\ DocOp(p).operationId # DocOp(q).operationId
                     /\ RefsOf(DocOp(p)) \cap RefsOf(DocOp(q)) = {}

Ops(apis) == {i \in 1..Len(apis) : ~IsNone(apis[i])}

\* no two operations of the list have the same path and method
DistinctOps(apis) ==
    \A i \in Ops(apis), j \in Ops(apis) :
        i # j => <<apis[i].path, apis[i].method>> # <<apis[j].path, apis[j].method>>

ClaimSchemaName(api, is_response) ==
    ClaimOperationId(api.path, api.method) \o (IF is_response THEN "Response" ELSE "Request")

FirstCall == calls = 0 /\ calls' = 1

\* C16: after the assembly of a list of operations, each operation with a
\* response schema has its 200 response schema equal to a $ref to its generated
\* response schema name, under which components.schemas holds that operation's
\* own response schema; likewise each operation with a request body has its
\* request-body schema replaced by a $ref to its generated request schema name,
\* under which components.schemas holds that operation's own request schema.
C16_OwnSchemaRegistered ==
    [][(FirstCall /\ DistinctOps(api_list)) =>
          \A i \in Ops(api_list) :
              LET api     == api_list[i]
                  after   == api_list'[i]
                  schemas == openapi'.components.schemas
                  rname   == ClaimSchemaName(api, TRUE)
                  qname   == ClaimSchemaName(api, FALSE)
              IN /\ ~IsNone(api.response_schema) =>
                       /\ after.responses.r200.schema = SchemaRef(rname)
                       /\ rname \in DOMAIN schemas
                       /\ schemas[rname] = api.response_schema
                 /\ ~IsNone(api.request_body) =>
                       /\ after.request_body.schema = SchemaRef(qname)
                       /\ qname \in DOMAIN schemas
                       /\ schemas[qname] = api.request_body.schema]_vars

\* {type: object, properties: {code: integer, message: string}, required: [code, message]}
IsClaimError(s) ==
    /\ s.type = "object"
    /\ DOMAIN s.properties = {"code", "message"}
    /\ s.properties.code.type = "integer"
    /\ s.properties.message.type = "string"
    /\ s.required = <<"code", "message">>

ClaimErrorRef == [ref |-> "#/components/schemas/Error"]

\* C17: for every list of operations, null entries included, components.schemas
\* of the assembled document maps Error to the fixed schema {type: object,
\* properties: {code: integer, message: string}, required: [code, message]};
\* registering the operations' schemas never overwrites or removes it, and every
\* 400, 401 and 500 response of every operation references it.
C17_ErrorSchemaKept ==
    Built =>
        /\ "Error" \in DOMAIN openapi.components.schemas
        /\ IsClaimError(openapi.components.schemas["Error"])
        /\ \A pm \in DocOps :
              /\ DocOp(pm).responses.r400.schema = ClaimErrorRef
              /\ DocOp(pm).responses.r401.schema = ClaimErrorRef
              /\ DocOp(pm).responses.r500.schema = ClaimErrorRef

\* a list of a null entry and an operation whose request and response schemas
\* are registered next to Error
C17_Witness ==
    /\ Built
    /\ \E i \in 1..Len(api_list) : IsNone(api_list[i])
    /\ Cardinality(DocOps) = 1
    /\ Cardinality(DOMAIN openapi.components.schemas) = 3
    /\ IsClaimError(openapi.components.schemas["Error"])

NoOps == Ops(api_list) = {}

\* C18: assembling an empty list of operations, or a list of null operations
\* only, completes and yields a document whose paths is empty, whose
\* components.schemas holds only Error, whose components.securitySchemes holds
\* only the TokenAuth API-key scheme (in query, name Token), and whose tags list
\* is empty.
C18_EmptyListDocument ==
    (Built /\ NoOps) =>
        /\ ~IsNone(openapi)
        /\ DOMAIN openapi.paths = {}
        /\ DOMAIN openapi.components.schemas = {"Error"}
        /\ DOMAIN openapi.components.securitySchemes = {"TokenAuth"}
        /\ openapi.components.securitySchemes["TokenAuth"].type = "apiKey"
        /\ openapi.components.securitySchemes["TokenAuth"].in = "query"
        /\ openapi.components.securitySchemes["TokenAuth"].name = "Token"
        /\ openapi.tags = <<>>

C18_Witness == Built /\ NoOps /\ Len(api_list) = MaxApis /\ DOMAIN openapi.paths = {}

\* the value the sidecar gives for a field, "" when it has none
ClaimField(file, label) ==
    LET F == {i \in 1..Len(file.lines) : file.lines[i].k = "field" /\ file.lines[i].label = label}
    IN IF ~file.readable \/ F = {} THEN "" ELSE file.lines[FirstOf(F)].value

ClaimDefaultServer == "http://192.168.0.72/zentao"

\* C19: when the sidecar info.md is unreadable, or readable with a blank version
\* or URL field, assembly completes with info.version unknown and servers[0].url
\* the hard-coded default server URL; a non-blank version or URL of the sidecar
\* is used verbatim.
C19_SidecarFallbacks ==
    Built =>
        LET version == ClaimField(info_md, LabelVersion)
            url     == ClaimField(info_md, LabelUrl)
        IN /\ openapi.info.version = (IF version = "" THEN "unknown" ELSE version)
           /\ openapi.servers[1].url = (IF url = "" THEN ClaimDefaultServer ELSE url)

SecondCall == calls = 1 /\ calls' = 2

\* C20: assembly is a function of its inputs: a second call of
\* build_openapi_spec on the same list of operations, with the sidecar
\* unchanged, yields a document equal to the first, and every
\* components.schemas entry registered for an operation is still an object
\* schema.
C20_AssemblyRepeatable ==
    [][SecondCall =>
          /\ openapi' = openapi
          /\ \A n \in DOMAIN openapi'.components.schemas :
                ~IsRef(openapi'.components.schemas[n])]_vars

\* the example blocks of a document that do not hold a JSON object
BadBlocks(doc) ==
    {i \in 1..Len(doc) :
        /\ doc[i].k = "head" /\ doc[i].n = 4 /\ doc[i].w \in {ReqExample, RespExample}
        /\ i + 5 <= Len(doc)
        /\ doc[i + 3].k = "json"
        /\ ~(doc[i + 3].v.valid /\ doc[i + 3].v.kind = "dict")}

\* the document without the six lines of the block at i
CutBlock(doc, i) == SubSeq(doc, 1, i - 1) \o SubSeq(doc, i + 6, Len(doc))

LastOf(S) == CHOOSE i \in S : \A j \in S : j <= i

RECURSIVE CutBlocks(_, _)
CutBlocks(doc, S) ==
    IF S = {} THEN doc ELSE CutBlocks(CutBlock(doc, LastOf(S)), S \ {LastOf(S)})

\* the second file is being returned, and the first file is the second without
\* its unparseable example blocks
BadExampleRun ==
    /\ Len(files.docs) = 2
    /\ files.i = 2
    /\ pc = "done"
    /\ BadBlocks(files.docs[2]) # {}
    /\ files.docs[1] = CutBlocks(files.docs[2], BadBlocks(files.docs[2]))
    /\ Len(api_list) = 1

\* a request example that is not valid JSON
BadRequestExample(doc) ==
    \E i \in BadBlocks(doc) : doc[i].w = ReqExample /\ ~doc[i + 3].v.valid

\* C21: an unparseable JSON example never aborts extraction and never drops
\* the operation: with a 请求体 table and a request example that is not valid
\* JSON the operation keeps the table-derived request body without example;
\* with no table and a request example (or the response example the heuristic
\* tries) that is not a JSON object the operation has no request body; in both
\* cases path, method, parameters and responses are those of the document
\* without the example block.
C21_BadExampleHarmless ==
    BadExampleRun =>
        /\ IsOp(result)
        /\ result.path = api_list[1].path
        /\ result.method = api_list[1].method
        /\ result.parameters = api_list[1].parameters
        /\ result.responses = api_list[1].responses
        /\ (HasHeading(content, ReqBody) /\ BadRequestExample(content)) =>
              /\ ~IsNone(result.request_body)
              /\ "example" \notin DOMAIN result.request_body
              /\ result.request_body = api_list[1].request_body
        /\ ~HasHeading(content, ReqBody) => IsNone(result.request_body)

C21_Witness ==
    /\ BadExampleRun
    /\ HasHeading(content, ReqBody)
    /\ BadRequestExample(content)
    /\ IsOp(result)
    /\ result.method = "post"
    /\ ~IsNone(result.request_body)

\* the line after the title line, blank lines skipped (0 when there is none)
AfterTitle(doc) == IF doc[1].k = "head" /\ doc[1].n = 3 THEN NextNonBlank(doc, 1) ELSE 0

\* C22: the description of an operation is the first non-empty line after the
\* title when that line is not a heading, and the empty string when the title is
\* followed directly by a #### heading: never a table row or later text.
C22_DescriptionAfterTitle ==
    (Done /\ IsOp(result) /\ HasTitleLine(content) /\ content[1].cells # <<>>) =>
        LET d == AfterTitle(content)
        IN IF d # 0 /\ content[d].k # "head"
           THEN result.description = LineTokens(content[d])
           ELSE result.description = <<>>


\* the first segment of a path, read off its tokens: the text between the
\* leading slashes and the next slash
ClaimFirstSegment(p) ==
    LET S == {i \in 1..Len(p) : p[i] # "/"}
        b == IF S = {} THEN 0 ELSE FirstOf(S)
        E == {i \in 1..Len(p) : i > b /\ p[i] = "/"}
        e == IF E = {} THEN Len(p) ELSE FirstOf(E) - 1
    IN IF b = 0 THEN "" ELSE Join(SubSeq(p, b, e))

TagNames == {openapi.tags[i].name : i \in 1..Len(openapi.tags)}

TagsDistinct ==
    \A i \in 1..Len(openapi.tags), j \in 1..Len(openapi.tags) :
        i # j => openapi.tags[i].name # openapi.tags[j].name

ClaimOpOf(api) == openapi.paths[Join(api.path)][api.method]

\* C23 as stated: the top-level tags hold one entry per distinct first path
\* segment of the operations, and every operation's tags is the one-element
\* list of its first path segment, a name of the top-level tags.
C23_TagsPerFirstSegment ==
    Built =>
        /\ TagsDistinct
        /\ TagNames = {ClaimFirstSegment(api_list[i].path) : i \in Ops(api_list)} \ {""}
        /\ \A i \in Ops(api_list) :
              /\ ClaimOpOf(api_list[i]).tags = <<ClaimFirstSegment(api_list[i].path)>>
              /\ ClaimFirstSegment(api_list[i].path) \in TagNames

\* C23, amended: the top-level tags hold one entry per distinct non-empty first
\* path segment of the operations; an operation whose path has a first segment
\* has the one-element tags list of that segment, a name of the top-level tags,
\* and an operation whose path is made of slashes only has the empty tags list.
C23_TagsPerNonEmptySegment ==
    Built =>
        /\ TagsDistinct
        /\ TagNames = {ClaimFirstSegment(api_list[i].path) : i \in Ops(api_list)} \ {""}
        /\ \A i \in Ops(api_list) :
              LET seg == ClaimFirstSegment(api_list[i].path)
              IN IF seg = "" THEN ClaimOpOf(api_list[i]).tags = <<>>
                 ELSE ClaimOpOf(api_list[i]).tags = <<seg>> /\ seg \in TagNames

C23_Witness ==
    /\ Built
    /\ Len(openapi.tags) = 1
    /\ Len(api_list) = 2
    /\ \A i \in 1..2 : ~IsNone(api_list[i]) /\ ClaimFirstSegment(api_list[i].path) = "a"
    /\ api_list[1].path # api_list[2].path


RECURSIVE ItemsOnArrays(_)
\* the key items occurs in the schema s, at any depth, only beside type array
ItemsOnArrays(s) ==
    /\ "items" \in DOMAIN s =>
          /\ "type" \in DOMAIN s
          /\ s.type = "array"
          /\ ItemsOnArrays(s.items)
    /\ "properties" \in DOMAIN s =>
          \A k \in DOMAIN s.properties : ItemsOnArrays(s.properties[k])

\* C24: in every request or response schema built from tables and sub-tables,
\* the key items occurs only on schemas whose type is array: a sub-table is
\* attached as items only to an array-typed parent field, also for a sub-table
\* titled `<field> 数组元素`, which the crawler writes for every parent type
\* other than object.
C24_ItemsOnlyOnArrays ==
    (Done /\ IsOp(result)) =>
        /\ ~IsNone(result.request_body) => ItemsOnArrays(result.request_body.schema)
        /\ ~IsNone(result.response_schema) => ItemsOnArrays(result.response_schema)


\* strategy x built the request body of the operation returned
StrategyUsed(x) == \E i \in 1..Len(used) : used[i] = x

\* the JSON of the 响应示例 block of the document, as written in it
ClaimResponseExample(doc) == doc[FirstOf(HeadingLines(doc, 4, RespExample)) + 3].v

\* C25: the response example becomes the request body only when the method is
\* POST, PUT or PATCH, no table gave a request body, the document has no
\* 请求示例 block, and the 响应示例 block is a JSON object with one of the keys
\* name, title, type, status, assignedTo, date, desc, estStarted, deadline; so
\* never for GET, DELETE or another method, nor beside a 请求示例 block.
C25_ResponseExampleAsRequest ==
    (Done /\ IsOp(result) /\ StrategyUsed("d")) =>
        /\ result.method \in {"post", "put", "patch"}
        /\ ~StrategyUsed("a") /\ ~StrategyUsed("b")
        /\ ~HasHeading(content, ReqExample)
        /\ HasHeading(content, RespExample)
        /\ ClaimResponseExample(content).valid
        /\ ClaimResponseExample(content).kind = "dict"
        /\ \E i \in 1..Len(ClaimResponseExample(content).obj) :
              ClaimResponseExample(content).obj[i].key \in
                 {"name", "title", "type", "status", "assignedTo", "date", "desc",
                  "estStarted", "deadline"}
        /\ result.request_body.example = ClaimResponseExample(content)

C25_Witness ==
    /\ Done /\ IsOp(result) /\ StrategyUsed("d")
    /\ result.method = "put"
    /\ ~IsNone(result.request_body)


\* the first line of the response section of a document: the first heading of
\* a response table or of the response example (Len + 1 when there is none)
ClaimResponseStart(doc) ==
    LET S == {i \in 1..Len(doc) :
                 /\ doc[i].k = "head" /\ doc[i].n = 4
                 /\ doc[i].w \in {RespParams, ReqResp, RespFields, RetParams, RespExample}}
    IN IF S = {} THEN Len(doc) + 1 ELSE FirstOf(S)

ClaimRequestPart(doc) == SubSeq(doc, 1, ClaimResponseStart(doc) - 1)
ClaimResponsePart(doc) == SubSeq(doc, ClaimResponseStart(doc), Len(doc))

\* the request part up to its first sub-table title
ClaimRequestMain(doc) ==
    LET r == ClaimRequestPart(doc)
        B == {i \in 1..Len(r) : r[i].k = "bold"}
    IN IF B = {} THEN r ELSE SubSeq(r, 1, FirstOf(B) - 1)

\* two files with a 请求体 table have been parsed and both gave an operation
TwoBodiesParsed ==
    /\ files.i = 2 /\ Done /\ Len(api_list) = 1 /\ IsOp(result)
    /\ HasHeading(files.docs[1], ReqBody) /\ HasHeading(files.docs[2], ReqBody)

\* C26: the request-body schema depends only on the 请求体 table and its
\* sub-tables, and the response schema does not depend on them: two documents
\* that are identical except for their response section give the same
\* request-body schema, and two documents that differ only in the sub-tables of
\* the request body give the same response schema.
C26_SchemasIndependent ==
    TwoBodiesParsed =>
        /\ ClaimRequestPart(files.docs[1]) = ClaimRequestPart(files.docs[2]) =>
              result.request_body = api_list[1].request_body
        /\ (/\ ClaimRequestMain(files.docs[1]) = ClaimRequestMain(files.docs[2])
            /\ ClaimResponsePart(files.docs[1]) = ClaimResponsePart(files.docs[2])) =>
              result.response_schema = api_list[1].response_schema


RECURSIVE NoEnum(_)
\* the schema s carries no enum, at any depth
NoEnum(s) ==
    /\ "enum" \notin DOMAIN s
    /\ "items" \in DOMAIN s => NoEnum(s.items)
    /\ "properties" \in DOMAIN s => \A k \in DOMAIN s.properties : NoEnum(s.properties[k])

\* the data rows of the table under heading w that have more cells than the
\* header of the table
LongRows(doc, w) ==
    LET h == FirstOf(HeadingLines(doc, 4, w))
    IN {c \in {DataRowsOf(doc, w)[i] : i \in 1..Len(DataRowsOf(doc, w))} :
           Len(c) > Len(doc[h + 2].cells)}

\* C27: no parameter schema and no property schema derived from a table row
\* carries an enum, since a row is cut at every pipe: a row whose description
\* holds a pipe-separated enumeration has more cells than the header, and is
\* skipped in the header and request-parameters tables, while in the 请求体 and
\* response tables its description is the text before the first pipe.
C27_NoEnumFromTables ==
    (Done /\ IsOp(result)) =>
        /\ \A i \in 1..Len(result.parameters) : NoEnum(result.parameters[i].schema)
        /\ (~IsNone(result.request_body) /\ (StrategyUsed("a") \/ StrategyUsed("b"))) =>
              NoEnum(result.request_body.schema)
        /\ ~IsNone(result.response_schema) => NoEnum(result.response_schema)
        /\ \A w \in {ReqHead, ReqParams} :
              HasHeading(content, w) =>
                 \A c \in LongRows(content, w) :
                    /\ \A i \in 1..Len(result.parameters) : result.parameters[i].name # c[1]
                    /\ ~IsNone(result.request_body) =>
                          c[1] \notin DOMAIN result.request_body.schema.properties
        /\ (HasHeading(content, ReqBody) /\ ~IsNone(result.request_body)) =>
              \A c \in LongRows(content, ReqBody) :
                 /\ c[1] \in DOMAIN result.request_body.schema.properties
                 /\ result.request_body.schema.properties[c[1]].description = c[4]
        /\ (HasHeading(content, RespParams) /\ ~IsNone(result.response_schema)) =>
              \A c \in LongRows(content, RespParams) :
                 /\ c[1] \in DOMAIN result.response_schema.properties
                 /\ result.response_schema.properties[c[1]].description = c[4]

C27_Witness ==
    /\ Done /\ IsOp(result)
    /\ HasHeading(content, ReqBody)
    /\ ~IsNone(result.request_body)
    /\ \E c \in LongRows(content, ReqBody) :
          /\ c[4] = "(open kai"
          /\ c[5] = "closed guan)"
          /\ result.request_body.schema.properties[c[1]].description = "(open kai"


TableCalled == call.fn = "parse_table_recursive"

\* the rows of the table that have at least four cells, by their place
KeptRows == {k \in 1..Len(call.rows) : call.rows[k].cells >= 4}

\* the number of marks that start the name of row k of the table
ClaimIndent(k) ==
    Cardinality({i \in 1..Len(call.rows[k].name) :
                    \A j \in 1..i : call.rows[k].name[j] = Mark})

\* the nearest kept row before row k with strictly fewer marks, 0 without one
ClaimParent(k) ==
    LET S == {j \in KeptRows : j < k /\ ClaimIndent(j) < ClaimIndent(k)}
    IN IF S = {} THEN 0 ELSE CHOOSE j \in S : \A m \in S : m <= j

\* the place in the table of node i of the tree, 0 for the root list
SrcOf(i) == IF i = 0 THEN 0 ELSE ret.params[i].src

RECURSIVE PreOrder(_, _)
\* the nodes below the lists of `nodes`, parents before their children
PreOrder(children, nodes) ==
    IF nodes = <<>> THEN <<>>
    ELSE <<Head(nodes)>> \o PreOrder(children, children[Head(nodes)])
         \o PreOrder(children, Tail(nodes))

\* C28: parse_table_recursive attaches each row to the nearest preceding row
\* with a strictly smaller indent, or to the root list when there is none;
\* every row is in the tree exactly once, and the tree read in pre-order gives
\* the rows in their original order.
C28_TreeFromIndents ==
    TableCalled =>
        /\ {SrcOf(i) : i \in 1..Len(ret.params)} = KeptRows
        /\ \A p \in DOMAIN ret.children : \A c \in 1..Len(ret.children[p]) :
              SrcOf(p) = ClaimParent(SrcOf(ret.children[p][c]))
        /\ \A i \in 1..Len(ret.params) :
              Cardinality({pc2 \in {<<p, c>> : p \in DOMAIN ret.children, c \in 1..MaxTreeRows + 1} :
                              /\ pc2[2] <= Len(ret.children[pc2[1]])
                              /\ ret.children[pc2[1]][pc2[2]] = i}) = 1
        /\ PreOrder(ret.children, ret.children[0]) = [i \in 1..Len(ret.params) |-> i]
        /\ \A i \in 1..Len(ret.params) : \A j \in 1..Len(ret.params) :
              i < j => SrcOf(i) < SrcOf(j)

C28_Witness ==
    /\ TableCalled
    /\ Len(ret.params) = 4
    /\ ret.children[0] = <<1>>
    /\ ret.children[1] = <<2, 4>>
    /\ ret.children[2] = <<3>>
    /\ ret.params[2].indent = 1 /\ ret.params[3].indent = 2 /\ ret.params[4].indent = 1


Happened(e) == \E i \in 1..Len(events) : events[i] = e

VerifyCalled == call.fn = "verify_api_docs"

\* the file name a method and a path give, written with or without the
\* underscore after the method
ClaimNamed(info, name) ==
    \E sep \in {<<"_">>, <<>>} :
        LowerName(name) =
            LowerName(<<info.method>> \o sep
                      \o [i \in 1..Len(StripSlashes(info.path)) |->
                             IF StripSlashes(info.path)[i] \in {"/", ":"} THEN "_"
                             ELSE StripSlashes(info.path)[i]]
                      \o <<".md">>)

\* the Markdown file m documents the API of the HTML file h: it is not
\* info.md, and it is named after the API or holds its method and path
ClaimMatches(h, m) ==
    /\ ~IsNone(h.info)
    /\ m.name # <<"info", ".md">>
    /\ \/ ClaimNamed(h.info, m.name)
       \/ /\ ~IsNone(m.info)
          /\ Lower(m.info.method) = Lower(h.info.method)
          /\ BracesToColon(m.info.path) = h.info.path

\* C30: verify_api_docs gives one result entry per HTML file, in the order of
\* the files; an HTML file that no Markdown file matches is a mismatch with
\* md_file None; total is the number of HTML files and match + mismatch = total.
C30_OneResultPerHtml ==
    VerifyCalled =>
        /\ Len(ret.results) = Len(call.html_files)
        /\ \A i \in 1..Len(call.html_files) :
              /\ ret.results[i].html_file = call.html_files[i].name
              /\ (\A j \in 1..Len(call.md_files) :
                     ~ClaimMatches(call.html_files[i], call.md_files[j])) =>
                    /\ IsNone(ret.results[i].md_file)
                    /\ ~ret.results[i].match
        /\ ret.total = Len(call.html_files)
        /\ ret.match + ret.mismatch = ret.total
        /\ ret.match = Cardinality({i \in 1..Len(ret.results) : ret.results[i].match})

C30_Witness ==
    /\ VerifyCalled
    /\ Len(call.html_files) = 2
    /\ Len(call.md_files) = 2
    /\ IsNone(ret.results[1].md_file)
    /\ ret.results[2].match
    /\ ret.match = 1 /\ ret.mismatch = 1 /\ ret.total = 2

====
